---- MODULE Spec2Model ----
(***************************************************************************)
(* A model of add-skill (zot24/add-skill): the installer's path safety     *)
(* (src/src/installer.ts), the revision resolver (src/src/git.ts), the     *)
(* manifest grouping (src/src/manifest.ts), the version validation         *)
(* (src/src/skills.ts) and the manifest pipeline installFromManifest       *)
(* (src/unnamed/part_000, the CLI entry point).                            *)
(*                                                                         *)
(* Text is modelled as a sequence of characters, each character a string.  *)
(* A character that never takes part in a split, a trim or a comparison of *)
(* a part of it may stand for a run of ordinary characters ("skills").     *)
(* Paths are POSIX paths (path.sep = "/").                                 *)
(***************************************************************************)
EXTENDS Integers, Sequences, FiniteSets, TLC

(***************************************************************************)
(* Bounds of the model.                                                    *)
(***************************************************************************)
MaxNameLen == 4
MaxAgents == 2
MaxEntries == 2
MaxDiscovered == 2
MaxRuns == 2
MaxDirs == 3
MaxSegs == 4
MaxInstalls == 2
MaxPathLen == 5
MaxPairNameLen == 2
MaxLocLen == 3

(***************************************************************************)
(* Characters.                                                             *)
(***************************************************************************)
NUL == "NUL"
SEP == "/"
BACKSLASH == "\\"
COLON == ":"
DOT == "."
SPACE == " "

RECURSIVE SeqsUpTo(_, _)
SeqsUpTo(S, n) ==
  IF n = 0 THEN {<<>>}
  ELSE LET shorter == SeqsUpTo(S, n - 1)
       IN shorter \cup {Append(s, c) : s \in {t \in shorter : Len(t) = n - 1}, c \in S}

Filter(s, Drop) ==
  LET kept(c) == c \notin Drop IN SelectSeq(s, kept)

RECURSIVE StripLeading(_, _)
StripLeading(s, Drop) ==
  IF s # <<>> /\ Head(s) \in Drop THEN StripLeading(Tail(s), Drop) ELSE s

RECURSIVE StripTrailing(_, _)
StripTrailing(s, Drop) ==
  IF s # <<>> /\ s[Len(s)] \in Drop
  THEN StripTrailing(SubSeq(s, 1, Len(s) - 1), Drop)
  ELSE s

startsWith(s, prefix) ==
  Len(s) >= Len(prefix) /\ SubSeq(s, 1, Len(prefix)) = prefix

Range(s) == {s[i] : i \in 1..Len(s)}

(***************************************************************************)
(* path.join, path.normalize, path.resolve and path.basename of Node, for  *)
(* POSIX paths.                                                            *)
(***************************************************************************)
RECURSIVE Split(_)
Split(s) ==
  \* s.split("/")
  IF SEP \notin Range(s) THEN <<s>>
  ELSE LET i == CHOOSE k \in 1..Len(s) : s[k] = SEP /\ \A j \in 1..(k - 1) : s[j] # SEP
       IN <<SubSeq(s, 1, i - 1)>> \o Split(SubSeq(s, i + 1, Len(s)))

RECURSIVE NormSegs(_, _)
NormSegs(segs, acc) ==
  \* "." and "" are dropped, ".." removes the segment before it (none above the root)
  IF segs = <<>> THEN acc
  ELSE LET h == Head(segs)
       IN IF h = <<>> \/ h = <<DOT>> THEN NormSegs(Tail(segs), acc)
          ELSE IF h = <<DOT, DOT>>
               THEN NormSegs(Tail(segs),
                             IF acc = <<>> THEN acc ELSE SubSeq(acc, 1, Len(acc) - 1))
               ELSE NormSegs(Tail(segs), Append(acc, h))

RECURSIVE Render(_)
Render(segs) ==
  IF segs = <<>> THEN <<>> ELSE <<SEP>> \o Head(segs) \o Render(Tail(segs))

Segments(p) == NormSegs(Split(p), <<>>)

resolve(p) ==
  \* path.resolve of an absolute path: normalized, no trailing separator
  LET segs == Segments(p) IN IF segs = <<>> THEN <<SEP>> ELSE Render(segs)

normalize(p) ==
  \* path.normalize of an absolute path: a trailing separator is kept
  LET r == resolve(p)
  IN IF p # <<>> /\ p[Len(p)] = SEP /\ r # <<SEP>> THEN Append(r, SEP) ELSE r

join(a, b) ==
  \* path.join(a, b): empty arguments are skipped
  IF b = <<>> THEN normalize(a) ELSE normalize(a \o <<SEP>> \o b)

basename(p) ==
  LET segs == Split(StripTrailing(p, {SEP})) IN segs[Len(segs)]

\* the resolved path p lies below the directory d
Below(d, p) ==
  IF d = <<SEP>> THEN p # d ELSE startsWith(p, Append(d, SEP))

(***************************************************************************)
(* installer.ts: sanitizeName, isPathSafe.                                 *)
(***************************************************************************)
NameCap == 255
UnnamedSkill == <<"u", "n", "n", "a", "m", "e", "d", "-", "s", "k", "i", "l", "l">>

sanitizeNameKeepsSeparators(name) ==
  \* the mutant: the first replace() forgets the separators
  LET s1 == Filter(name, {NUL})
      s2 == StripTrailing(StripLeading(s1, {DOT, SPACE}), {DOT, SPACE})
      s3 == StripLeading(s2, {DOT})
      s4 == IF s3 = <<>> THEN UnnamedSkill ELSE s3
  IN IF Len(s4) > NameCap THEN SubSeq(s4, 1, NameCap) ELSE s4

sanitizeName(name) ==
  LET s1 == Filter(name, {SEP, BACKSLASH, COLON, NUL})
      s2 == StripTrailing(StripLeading(s1, {DOT, SPACE}), {DOT, SPACE})
      s3 == StripLeading(s2, {DOT})
      s4 == IF s3 = <<>> THEN UnnamedSkill ELSE s3
  IN IF Len(s4) > NameCap THEN SubSeq(s4, 1, NameCap) ELSE s4

isPathSafe(basePath, targetPath) ==
  LET normalizedBase == normalize(resolve(basePath))
      normalizedTarget == normalize(resolve(targetPath))
  IN \/ startsWith(normalizedTarget, Append(normalizedBase, SEP))
     \/ normalizedTarget = normalizedBase

(***************************************************************************)
(* The agent registry (agents.ts is the table of README.md): the agents'   *)
(* project and global skills directories.                                  *)
(***************************************************************************)
AgentNames == <<"opencode", "claude-code", "codex", "cursor", "antigravity">>
AllAgents == SubSeq(AgentNames, 1, IF MaxAgents < Len(AgentNames) THEN MaxAgents ELSE Len(AgentNames))
Cwd == <<SEP, "proj">>
Home == <<SEP, "home">>

skillsDir(agent) ==
  CASE agent = "opencode" -> <<".opencode", SEP, "skill">>
    [] agent = "claude-code" -> <<".claude", SEP, "skills">>
    [] agent = "codex" -> <<".codex", SEP, "skills">>
    [] agent = "cursor" -> <<".cursor", SEP, "skills">>
    [] agent = "antigravity" -> <<".agent", SEP, "skills">>

globalSkillsDir(agent) ==
  CASE agent = "opencode" -> join(Home, <<".config", SEP, "opencode", SEP, "skill">>)
    [] agent = "claude-code" -> join(Home, <<".claude", SEP, "skills">>)
    [] agent = "codex" -> join(Home, <<".codex", SEP, "skills">>)
    [] agent = "cursor" -> join(Home, <<".cursor", SEP, "skills">>)
    [] agent = "antigravity" -> join(Home, <<".gemini", SEP, "antigravity", SEP, "skills">>)

(***************************************************************************)
(* installer.ts: copyDirectory and installSkillForAgent. A directory       *)
(* listing is a sequence of entries [name, isDir, entries]. The writes of  *)
(* an install are the sequence of its mkdir and cp calls; failAt = k > 0   *)
(* makes the k-th of them throw, failAt = 0 lets all of them succeed.      *)
(***************************************************************************)
EXCLUDE_FILES == {<<"README.md">>, <<"metadata.json">>}

isExcludedByListOnly(name) ==
  \* the mutant: the underscore rule is missing
  name \in EXCLUDE_FILES

isExcluded(name) ==
  \/ name \in EXCLUDE_FILES
  \/ (name # <<>> /\ Head(name) = "_")

File(name) == [name |-> name, isDir |-> FALSE, entries |-> <<>>]
Dir(name, entries) == [name |-> name, isDir |-> TRUE, entries |-> entries]

MkdirOp(path) == [op |-> "mkdir", path |-> path]
CpOp(path) == [op |-> "cp", path |-> path]

RECURSIVE copyDirectory(_, _)
RECURSIVE copyEntries(_, _)
copyDirectory(entries, dest) ==
  <<MkdirOp(dest)>> \o copyEntries(entries, dest)

copyEntries(entries, dest) ==
  IF entries = <<>> THEN <<>>
  ELSE LET entry == Head(entries)
           destPath == join(dest, entry.name)
           here == IF isExcluded(entry.name) THEN <<>>
                   ELSE IF entry.isDir THEN copyDirectory(entry.entries, destPath)
                   ELSE <<CpOp(destPath)>>
       IN here \o copyEntries(Tail(entries), dest)

\* the content of a package directory in the retrieved tree
PackageContent ==
  << File(<<"SKILL.md">>),
     File(<<"README.md">>),
     File(<<"_", "tpl">>),
     Dir(<<"ref">>, <<File(<<"a.md">>), File(<<"metadata.json">>)>>),
     Dir(<<"_", "d">>, <<File(<<"k.md">>)>>) >>

TraversalError == "Invalid skill name: potential path traversal detected"
FsError == "fs error"
NoError == "none"

TargetBase(agentType, global) ==
  IF global THEN globalSkillsDir(agentType) ELSE join(Cwd, skillsDir(agentType))

InstallOps(targetDir) == <<MkdirOp(targetDir)>> \o copyDirectory(PackageContent, targetDir)

Outcome(targetBase, targetDir, failAt) ==
  \* the try block of installSkillForAgent
  LET ops == InstallOps(targetDir)
      failed == failAt \in 1..Len(ops)
  IN [success |-> ~failed,
      path |-> targetDir,
      error |-> IF failed THEN FsError ELSE NoError,
      base |-> targetBase,
      ops |-> IF failed THEN SubSeq(ops, 1, failAt - 1) ELSE ops]

installSkillForAgentUnhardened(skill, agentType, global, failAt) ==
  \* the mutant: the raw name is joined and nothing is validated
  LET rawSkillName == IF skill.name # <<>> THEN skill.name ELSE basename(skill.path)
      targetBase == TargetBase(agentType, global)
  IN Outcome(targetBase, join(targetBase, rawSkillName), failAt)

installSkillForAgent(skill, agentType, global, failAt) ==
  LET rawSkillName == IF skill.name # <<>> THEN skill.name ELSE basename(skill.path)
      skillName == sanitizeName(rawSkillName)
      targetBase == TargetBase(agentType, global)
      targetDir == join(targetBase, skillName)
  IN IF ~isPathSafe(targetBase, targetDir)
     THEN [success |-> FALSE, path |-> targetDir, error |-> TraversalError,
           base |-> targetBase, ops |-> <<>>]
     ELSE Outcome(targetBase, targetDir, failAt)

(***************************************************************************)
(* manifest.ts: validateLocation; installer.ts: resolveLocationPath,       *)
(* getInstallPathForLocation, installSkillToLocation. The keywords are     *)
(* one-character strings.                                                  *)
(***************************************************************************)
GLOBAL == <<"global">>
PROJECT == <<"project">>
TILDE == "~"
Letters == {"a"}
EscapeError == "Invalid location: path escapes current working directory"

\* location.includes('..')
HasDotDot(s) == \E i \in 1..(Len(s) - 1) : s[i] = DOT /\ s[i + 1] = DOT

validateLocationAllowingDotDot(location) ==
  \* without the test for '..'
  IF location = GLOBAL \/ location = PROJECT THEN TRUE
  ELSE IF location = <<>> \/ StripLeading(location, {SPACE}) = <<>> THEN FALSE
  ELSE IF location[1] = SEP \/ location[1] = TILDE THEN FALSE
  ELSE IF Len(location) >= 2 /\ location[1] \in Letters /\ location[2] = COLON THEN FALSE
  ELSE IF NUL \in Range(location) THEN FALSE
  ELSE TRUE

\* TRUE when validateLocation returns, FALSE when it throws
validateLocation(location) ==
  IF location = GLOBAL \/ location = PROJECT THEN TRUE
  ELSE IF location = <<>> \/ StripLeading(location, {SPACE}) = <<>> THEN FALSE
  ELSE IF location[1] = SEP \/ location[1] = TILDE THEN FALSE
  ELSE IF Len(location) >= 2 /\ location[1] \in Letters /\ location[2] = COLON THEN FALSE
  ELSE IF HasDotDot(location) THEN FALSE
  ELSE IF NUL \in Range(location) THEN FALSE
  ELSE TRUE

\* path.join(a, b, c) with a not empty
join3(a, b, c) ==
  normalize(a \o (IF b = <<>> THEN <<>> ELSE <<SEP>> \o b)
              \o (IF c = <<>> THEN <<>> ELSE <<SEP>> \o c))

resolveLocationPath(skillName, agentType, location) ==
  LET checked(targetBase, installPath) ==
        IF location # GLOBAL /\ ~isPathSafe(Cwd, installPath)
        THEN [threw |-> TRUE, path |-> <<>>, base |-> targetBase, error |-> EscapeError]
        ELSE IF ~isPathSafe(targetBase, installPath)
        THEN [threw |-> TRUE, path |-> <<>>, base |-> targetBase, error |-> TraversalError]
        ELSE [threw |-> FALSE, path |-> installPath, base |-> targetBase, error |-> NoError]
      based(sanitized, targetBase) == checked(targetBase, join(targetBase, sanitized))
  IN based(sanitizeName(skillName),
           IF location = GLOBAL THEN globalSkillsDir(agentType)
           ELSE IF location = PROJECT THEN join(Cwd, skillsDir(agentType))
           ELSE join3(Cwd, location, skillsDir(agentType)))

getInstallPathForLocation(skillName, agentType, location) ==
  resolveLocationPath(skillName, agentType, location)

\* installSkillToLocation with a file system that does not fail
installSkillToLocation(skill, agentType, location) ==
  LET placed(r) ==
        IF r.threw THEN [success |-> FALSE, path |-> <<>>, error |-> r.error, ops |-> <<>>]
        ELSE [success |-> TRUE, path |-> r.path, error |-> NoError, ops |-> InstallOps(r.path)]
      named(rawSkillName) ==
        placed(resolveLocationPath(sanitizeName(rawSkillName), agentType, location))
  IN named(IF skill.name # <<>> THEN skill.name ELSE basename(skill.path))

\* what is on disk: a set of [path, isDir, content]. mkdir with recursive
\* leaves an existing directory alone and throws on a file; cp (force is
\* its default) replaces an existing file and throws on a directory.
OnDisk(path, isDir, content) == [path |-> path, isDir |-> isDir, content |-> content]
PackageBytes == "package"

\* dir and the directories above it, the root left out
Ancestors(dir) ==
  LET up(segs) == {Render(SubSeq(segs, 1, k)) : k \in 1..Len(segs)}
  IN up(Segments(dir))

\* mkdir(path, {recursive: true}): the missing directories down to path are
\* made; it throws when a file is in the way
mkdir(fs, path) ==
  IF \E e \in fs : e.path \in Ancestors(path) /\ ~e.isDir
  THEN [ok |-> FALSE, fs |-> fs]
  ELSE [ok |-> TRUE,
        fs |-> fs \cup {OnDisk(d, TRUE, "") : d \in {a \in Ancestors(path) :
                                                     \A e \in fs : e.path # a}}]

applyOpNoOverwrite(fs, op) ==
  \* the mutant: cp throws when something is at the destination already
  IF op.op = "mkdir" THEN mkdir(fs, op.path)
  ELSE IF \E e \in fs : e.path = op.path
       THEN [ok |-> FALSE, fs |-> fs]
       ELSE [ok |-> TRUE, fs |-> fs \cup {OnDisk(op.path, FALSE, PackageBytes)}]

applyOpPruning(fs, op) ==
  \* the mutant: mkdir empties a directory that is there already
  IF op.op = "mkdir"
  THEN mkdir({e \in fs : ~Below(op.path, e.path)}, op.path)
  ELSE IF \E e \in fs : e.path = op.path /\ e.isDir
       THEN [ok |-> FALSE, fs |-> fs]
       ELSE [ok |-> TRUE,
             fs |-> {e \in fs : e.path # op.path} \cup {OnDisk(op.path, FALSE, PackageBytes)}]

\* one call of mkdir or cp; cp (force is its default) replaces a file and
\* throws on a directory
applyOp(fs, op) ==
  IF op.op = "mkdir" THEN mkdir(fs, op.path)
  ELSE IF \E e \in fs : e.path = op.path /\ e.isDir
       THEN [ok |-> FALSE, fs |-> fs]
       ELSE [ok |-> TRUE,
             fs |-> {e \in fs : e.path # op.path} \cup {OnDisk(op.path, FALSE, PackageBytes)}]

\* the calls of ops made one after the other until one throws; ran is the
\* calls that returned
RECURSIVE runOps(_, _, _)
runOps(fs, ops, ran) ==
  IF ops = <<>> THEN [ok |-> TRUE, fs |-> fs, ran |-> ran]
  ELSE LET next(r) == IF r.ok THEN runOps(r.fs, Tail(ops), Append(ran, Head(ops)))
                      ELSE [ok |-> FALSE, fs |-> fs, ran |-> ran]
       IN next(applyOp(fs, Head(ops)))

\* installSkillForAgent against the disk: its result, the disk after it and
\* the calls that returned. failAt: the call the environment makes throw
\* (0: none), apart from what is on disk
installOnDisk(fs, skill, agentType, global, failAt) ==
  LET onDisk(r, ran) ==
        [success |-> r.success /\ ran.ok, path |-> r.path, fs |-> ran.fs, ops |-> ran.ran]
      installed(r) == onDisk(r, runOps(fs, r.ops, <<>>))
  IN installed(installSkillForAgent(skill, agentType, global, failAt))

MaxOps == Len(InstallOps(<<SEP, "t">>))

(***************************************************************************)
(* git.ts: parseSource and cloneRepoAtVersion. In an input the host names  *)
(* "github.com" and "gitlab.com", "tree" and ".git" are each one           *)
(* character of the model.                                                 *)
(***************************************************************************)
NoVersion == <<>>
NoSubpath == <<>>
AT == "@"

RECURSIVE JoinSegs(_)
JoinSegs(segs) ==
  IF segs = <<>> THEN <<>>
  ELSE IF Len(segs) = 1 THEN Head(segs)
       ELSE Head(segs) \o <<SEP>> \o JoinSegs(Tail(segs))

NL == "\n"
GITHUB == "github.com"
GITLAB == "gitlab.com"
DOTGIT == ".git"

\* the longest run of characters outside Stop that starts at position i
RunFrom(s, i, Stop) ==
  LET ends == {j \in i..Len(s) : s[j] \in Stop}
  IN IF i > Len(s) THEN <<>>
     ELSE IF ends = {} THEN SubSeq(s, i, Len(s))
     ELSE SubSeq(s, i, (CHOOSE j \in ends : \A k \in ends : j <= k) - 1)

\* host\/([^/]+)\/([^/]+) found at position i: owner, repo and the position
\* after repo
RepoAt(input, host, i) ==
  LET owner == RunFrom(input, i + 2, {SEP})
      p == i + 2 + Len(owner)
      repo == RunFrom(input, p + 1, {SEP})
  IN [ok |-> /\ input[i] = host
             /\ i + 1 <= Len(input) /\ input[i + 1] = SEP
             /\ owner # <<>>
             /\ p <= Len(input) /\ input[p] = SEP
             /\ repo # <<>>,
      owner |-> owner, repo |-> repo, next |-> p + 1 + Len(repo)]

\* the pattern followed by  marker\/([^/]+)\/(.+)  where marker is /tree or
\* /-/tree: the (.+) stops at a line break
TreeAt(input, host, marker, i) ==
  LET r == RepoAt(input, host, i)
      q == r.next + Len(marker)
      branch == RunFrom(input, q + 1, {SEP})
      t == q + 1 + Len(branch)
      subpath == RunFrom(input, t + 1, {NL})
  IN [ok |-> /\ r.ok
             /\ q <= Len(input)
             /\ SubSeq(input, r.next, q - 1) = marker
             /\ input[q] = SEP
             /\ branch # <<>>
             /\ t <= Len(input) /\ input[t] = SEP
             /\ subpath # <<>>,
      owner |-> r.owner, repo |-> r.repo, subpath |-> subpath]

\* the leftmost position at which a pattern matches, 0 if none
FirstRepo(input, host) ==
  LET at == {i \in 1..Len(input) : RepoAt(input, host, i).ok}
  IN IF at = {} THEN 0 ELSE CHOOSE i \in at : \A j \in at : i <= j
FirstTree(input, host, marker) ==
  LET at == {i \in 1..Len(input) : TreeAt(input, host, marker, i).ok}
  IN IF at = {} THEN 0 ELSE CHOOSE i \in at : \A j \in at : i <= j

\* repo.replace(/\.git$/, '')
cleanRepo(repo) ==
  IF repo[Len(repo)] = DOTGIT THEN SubSeq(repo, 1, Len(repo) - 1) ELSE repo

HostUrl(host, owner, repo) ==
  <<"https://", host, SEP>> \o owner \o <<SEP>> \o repo \o <<DOTGIT>>

parseSourceDroppingTail(input) ==
  \* the mutant: the shorthand's tail is not returned as subpath
  LET githubTree == FirstTree(input, GITHUB, <<SEP, "tree">>)
      githubRepo == FirstRepo(input, GITHUB)
      gitlabTree == FirstTree(input, GITLAB, <<SEP, "-", SEP, "tree">>)
      gitlabRepo == FirstRepo(input, GITLAB)
      segs == Split(input)
      rest == IF Len(segs) > 2 THEN JoinSegs(SubSeq(segs, 3, Len(segs))) ELSE <<>>
      shorthandMatch ==
        /\ Len(segs) >= 2
        /\ segs[1] # <<>>
        /\ segs[2] # <<>>
        /\ (Len(segs) > 2 => rest # <<>> /\ NL \notin Range(rest))
  IN IF githubTree # 0
     THEN LET m == TreeAt(input, GITHUB, <<SEP, "tree">>, githubTree)
          IN [type |-> "github", url |-> HostUrl(GITHUB, m.owner, m.repo), subpath |-> m.subpath]
     ELSE IF githubRepo # 0
     THEN LET m == RepoAt(input, GITHUB, githubRepo)
          IN [type |-> "github", url |-> HostUrl(GITHUB, m.owner, cleanRepo(m.repo)),
              subpath |-> NoSubpath]
     ELSE IF gitlabTree # 0
     THEN LET m == TreeAt(input, GITLAB, <<SEP, "-", SEP, "tree">>, gitlabTree)
          IN [type |-> "gitlab", url |-> HostUrl(GITLAB, m.owner, m.repo), subpath |-> m.subpath]
     ELSE IF gitlabRepo # 0
     THEN LET m == RepoAt(input, GITLAB, gitlabRepo)
          IN [type |-> "gitlab", url |-> HostUrl(GITLAB, m.owner, cleanRepo(m.repo)),
              subpath |-> NoSubpath]
     ELSE IF shorthandMatch /\ COLON \notin Range(input)
     THEN [type |-> "github", url |-> HostUrl(GITHUB, segs[1], segs[2]), subpath |-> NoSubpath]
     ELSE [type |-> "git", url |-> input, subpath |-> NoSubpath]

parseSource(input) ==
  LET githubTree == FirstTree(input, GITHUB, <<SEP, "tree">>)
      githubRepo == FirstRepo(input, GITHUB)
      gitlabTree == FirstTree(input, GITLAB, <<SEP, "-", SEP, "tree">>)
      gitlabRepo == FirstRepo(input, GITLAB)
      segs == Split(input)
      rest == IF Len(segs) > 2 THEN JoinSegs(SubSeq(segs, 3, Len(segs))) ELSE <<>>
      shorthandMatch ==
        /\ Len(segs) >= 2
        /\ segs[1] # <<>>
        /\ segs[2] # <<>>
        /\ (Len(segs) > 2 => rest # <<>> /\ NL \notin Range(rest))
  IN IF githubTree # 0
     THEN LET m == TreeAt(input, GITHUB, <<SEP, "tree">>, githubTree)
          IN [type |-> "github", url |-> HostUrl(GITHUB, m.owner, m.repo), subpath |-> m.subpath]
     ELSE IF githubRepo # 0
     THEN LET m == RepoAt(input, GITHUB, githubRepo)
          IN [type |-> "github", url |-> HostUrl(GITHUB, m.owner, cleanRepo(m.repo)),
              subpath |-> NoSubpath]
     ELSE IF gitlabTree # 0
     THEN LET m == TreeAt(input, GITLAB, <<SEP, "-", SEP, "tree">>, gitlabTree)
          IN [type |-> "gitlab", url |-> HostUrl(GITLAB, m.owner, m.repo), subpath |-> m.subpath]
     ELSE IF gitlabRepo # 0
     THEN LET m == RepoAt(input, GITLAB, gitlabRepo)
          IN [type |-> "gitlab", url |-> HostUrl(GITLAB, m.owner, cleanRepo(m.repo)),
              subpath |-> NoSubpath]
     ELSE IF shorthandMatch /\ COLON \notin Range(input)
     THEN [type |-> "github", url |-> HostUrl(GITHUB, segs[1], segs[2]), subpath |-> rest]
     ELSE [type |-> "git", url |-> input, subpath |-> NoSubpath]

\* what the remote answers to one cloneRepoAtVersion call: whether the clone
\* of tag v<version>, of tag <version> and of the default branch succeeds,
\* and whether git log reports a latest commit
CloneEnvs == [tagV : BOOLEAN, tagPlain : BOOLEAN, branch : BOOLEAN, log : BOOLEAN]

HEAD == <<"HEAD">>
\* the hash of the commit that ref names in the repository at url
CommitOf(url, ref) == <<"sha:">> \o url \o <<"#">> \o ref
IsCommitId(r) == r # <<>> /\ r[1] = "sha:"

ClonedNamingDirectory(tempDir, url, ref, env, created, existing, attempts) ==
  \* the mutant: the reference is derived from the local clone directory
  [ok |-> TRUE, tempDir |-> tempDir,
   resolvedRef |-> IF env.log THEN <<"sha:", ToString(tempDir)>> ELSE HEAD,
   created |-> created, existing |-> existing, attempts |-> attempts]

Cloned(tempDir, url, ref, env, created, existing, attempts) ==
  [ok |-> TRUE, tempDir |-> tempDir,
   resolvedRef |-> IF env.log THEN CommitOf(url, ref) ELSE HEAD,
   created |-> created, existing |-> existing, attempts |-> attempts]

CloneFailed(created, existing, attempts) ==
  [ok |-> FALSE, tempDir |-> 0, resolvedRef |-> <<>>,
   created |-> created, existing |-> existing, attempts |-> attempts]

\* whether the remote lets the clone of ref succeed
CloneAnswer(env, version, ref) ==
  IF ref = HEAD THEN env.branch
  ELSE IF ref = version THEN env.tagPlain
  ELSE env.tagV

cloneRepoAtVersionPlainFirst(url, version, env, n) ==
  \* the mutant: the tag variants are tried in the other order
  LET tempDir == n + 1
      tagV == <<"v">> \o version
      fallbackDir == n + 4
  IN IF version = NoVersion
     THEN IF env.branch
          THEN Cloned(tempDir, url, HEAD, env, {tempDir}, {tempDir}, <<HEAD>>)
          ELSE CloneFailed({tempDir}, {tempDir}, <<HEAD>>)
     ELSE IF env.tagPlain
     THEN Cloned(tempDir, url, version, env, {tempDir}, {tempDir}, <<version>>)
     ELSE IF env.tagV
     THEN Cloned(tempDir, url, tagV, env, {tempDir, n + 2}, {tempDir, n + 2},
                 <<version, tagV>>)
     ELSE IF env.branch
     THEN Cloned(fallbackDir, url, HEAD, env, {tempDir, n + 2, n + 3, fallbackDir},
                 {n + 2, n + 3, fallbackDir}, <<version, tagV, HEAD>>)
     ELSE CloneFailed({tempDir, n + 2, n + 3, fallbackDir},
                      {n + 2, n + 3, fallbackDir}, <<version, tagV, HEAD>>)

cloneRepoAtVersion(url, version, env, n) ==
  \* n: the number of directories mkdtemp has made so far; the directories
  \* this call makes are n+1, n+2, ...
  LET tempDir == n + 1
      tagV == <<"v">> \o version
      fallbackDir == n + 4
  IN IF version = NoVersion
     THEN IF env.branch
          THEN Cloned(tempDir, url, HEAD, env, {tempDir}, {tempDir}, <<HEAD>>)
          ELSE CloneFailed({tempDir}, {tempDir}, <<HEAD>>)
     ELSE IF env.tagV
     THEN Cloned(tempDir, url, tagV, env, {tempDir}, {tempDir}, <<tagV>>)
     \* catch: rm(tempDir), then a mkdtemp whose directory (n+2) is dropped
     ELSE IF env.tagPlain
     THEN Cloned(tempDir, url, version, env, {tempDir, n + 2}, {tempDir, n + 2},
                 <<tagV, version>>)
     \* catch again: rm(tempDir), mkdtemp (n+3) dropped; then the fallback
     ELSE IF env.branch
     THEN Cloned(fallbackDir, url, HEAD, env, {tempDir, n + 2, n + 3, fallbackDir},
                 {n + 2, n + 3, fallbackDir}, <<tagV, version, HEAD>>)
     ELSE CloneFailed({tempDir, n + 2, n + 3, fallbackDir},
                      {n + 2, n + 3, fallbackDir}, <<tagV, version, HEAD>>)

\* git.ts: cleanupTempDir on a path; fs is the set of the (resolved) paths
\* on disk, tmp is os.tmpdir(). rm with recursive and force takes dir and
\* everything below it, and does not throw when dir is missing.
rm(fs, dir) ==
  LET gone(d) == {p \in fs : p = d \/ Below(d, p)}
  IN fs \ gone(resolve(dir))

cleanupTempDirPath(dir, tmp, fs) ==
  LET guarded(normalizedDir, normalizedTmpDir) ==
        IF ~startsWith(normalizedDir, Append(normalizedTmpDir, SEP))
           /\ normalizedDir # normalizedTmpDir
        THEN [threw |-> TRUE, fs |-> fs]
        ELSE [threw |-> FALSE, fs |-> rm(fs, dir)]
  IN guarded(normalize(resolve(dir)), normalize(resolve(tmp)))

\* part_000 lines 333-341: nothing for null (or ''), and the error of
\* cleanupTempDir is caught
cleanup(tempDir, tmp, fs) ==
  IF tempDir = <<>> THEN [raised |-> FALSE, propagated |-> FALSE, fs |-> fs]
  ELSE LET caught(r) == [raised |-> r.threw, propagated |-> FALSE, fs |-> r.fs]
       IN caught(cleanupTempDirPath(tempDir, tmp, fs))

(***************************************************************************)
(* skills.ts: validateSkillVersion. A skill is [name, version, path];      *)
(* version is NoVersion when the frontmatter declares none.                *)
(***************************************************************************)
NoMessage == [kind |-> "none", name |-> <<>>, requested |-> <<>>, actual |-> <<>>]
Message(kind, name, requested, actual) ==
  [kind |-> kind, name |-> name, requested |-> requested, actual |-> actual]

validateSkillVersionInverted(skill, requestedVersion) ==
  \* the mutant: the comparison of line 166 is inverted
  LET actual == skill.version
  IN IF actual = NoVersion
     THEN [valid |-> TRUE, actual |-> NoVersion,
           message |-> Message("unversioned", skill.name, <<>>, <<>>)]
     ELSE IF actual # requestedVersion
     THEN [valid |-> TRUE, actual |-> actual, message |-> NoMessage]
     ELSE [valid |-> FALSE, actual |-> actual,
           message |-> Message("mismatch", skill.name, requestedVersion, actual)]

validateSkillVersion(skill, requestedVersion) ==
  LET actual == skill.version
  IN IF actual = NoVersion
     THEN [valid |-> TRUE, actual |-> NoVersion,
           message |-> Message("unversioned", skill.name, <<>>, <<>>)]
     ELSE IF actual = requestedVersion
     THEN [valid |-> TRUE, actual |-> actual, message |-> NoMessage]
     ELSE [valid |-> FALSE, actual |-> actual,
           message |-> Message("mismatch", skill.name, requestedVersion, actual)]

(***************************************************************************)
(* skills.ts: discoverSkills on a tree. A tree is the sequence, in the      *)
(* order readdir lists them, of its directories that matter: each is        *)
(* [dir, file, desc], dir the names from the clone's root down, file        *)
(* whether it holds a SKILL.md, desc the name and version of its            *)
(* frontmatter (an empty name stands for a frontmatter that parseSkillMd    *)
(* refuses). The directories above a listed one exist too.                  *)
(***************************************************************************)
NoDesc == [name |-> <<>>, version |-> NoVersion]
NoSkill == [name |-> <<>>, version |-> NoVersion, path |-> <<>>]
SkipDirsVcsOnly == {".git"}
SKIP_DIRS == {"node_modules", ".git", "dist", "build", "__pycache__"}
maxDepth == 5

IsPrefix(p, q) == Len(p) <= Len(q) /\ SubSeq(q, 1, Len(p)) = p

RECURSIVE DirPath(_)
DirPath(dir) == IF dir = <<>> THEN <<>> ELSE <<SEP, Head(dir)>> \o DirPath(Tail(dir))

hasSkillMd(tree, dir) ==
  \E i \in 1..Len(tree) : tree[i].dir = dir /\ tree[i].file

\* the Skill of the SKILL.md of dir, NoSkill for null
parseSkillMd(tree, basePath, dir) ==
  IF ~hasSkillMd(tree, dir) THEN NoSkill
  ELSE LET i == CHOOSE i \in 1..Len(tree) : tree[i].dir = dir /\ tree[i].file
       IN IF tree[i].desc.name = <<>> THEN NoSkill
          ELSE [name |-> tree[i].desc.name, version |-> tree[i].desc.version,
                path |-> basePath \o DirPath(dir)]

\* readdir(dir): the directories in dir, in listing order; none when dir
\* does not exist (readdir throws and the catch goes on)
RECURSIVE readdirDirs(_, _, _, _)
readdirDirs(tree, dir, i, acc) ==
  IF i > Len(tree) THEN acc
  ELSE LET d == tree[i].dir
           child == SubSeq(d, 1, Len(dir) + 1)
       IN IF IsPrefix(dir, d) /\ Len(d) > Len(dir) /\ child \notin Range(acc)
          THEN readdirDirs(tree, dir, i + 1, Append(acc, child))
          ELSE readdirDirs(tree, dir, i + 1, acc)

pushAlways(skills, skill) ==
  \* the mutant: seenNames is not consulted
  IF skill # NoSkill THEN Append(skills, skill) ELSE skills

\* lines 114-117 and 131-134
pushUnseen(skills, skill) ==
  IF skill # NoSkill /\ \A k \in 1..Len(skills) : skills[k].name # skill.name
  THEN Append(skills, skill)
  ELSE skills

\* the skills of the directories of dirs, in order, added to skills
RECURSIVE collect(_, _, _, _)
collect(tree, basePath, dirs, skills) ==
  IF dirs = <<>> THEN skills
  ELSE collect(tree, basePath, Tail(dirs),
               IF hasSkillMd(tree, Head(dirs))
               THEN pushUnseen(skills, parseSkillMd(tree, basePath, Head(dirs)))
               ELSE skills)

prioritySearchDirs(searchPath) ==
  << searchPath,
     searchPath \o <<"skills">>,
     searchPath \o <<"skills", ".curated">>,
     searchPath \o <<"skills", ".experimental">>,
     searchPath \o <<"skills", ".system">>,
     searchPath \o <<".codex", "skills">>,
     searchPath \o <<".claude", "skills">>,
     searchPath \o <<".opencode", "skill">>,
     searchPath \o <<".cursor", "skills">>,
     searchPath \o <<".agents", "skills">>,
     searchPath \o <<".kilocode", "skills">>,
     searchPath \o <<".roo", "skills">>,
     searchPath \o <<".goose", "skills">>,
     searchPath \o <<".agent", "skills">> >>

\* the directories the loop of lines 105-123 looks at, in order
RECURSIVE priorityCandidates(_, _)
priorityCandidates(tree, dirs) ==
  IF dirs = <<>> THEN <<>>
  ELSE readdirDirs(tree, Head(dirs), 1, <<>>) \o priorityCandidates(tree, Tail(dirs))

RECURSIVE findSkillDirs(_, _, _)
RECURSIVE findInEntries(_, _, _)
findSkillDirs(tree, dir, depth) ==
  IF depth > maxDepth THEN <<>>
  ELSE (IF hasSkillMd(tree, dir) THEN <<dir>> ELSE <<>>)
       \o findInEntries(tree, readdirDirs(tree, dir, 1, <<>>), depth)
findInEntries(tree, entries, depth) ==
  IF entries = <<>> THEN <<>>
  ELSE (IF Head(entries)[Len(Head(entries))] \notin SKIP_DIRS
        THEN findSkillDirs(tree, Head(entries), depth + 1)
        ELSE <<>>)
       \o findInEntries(tree, Tail(entries), depth)

\* the directories findSkillDirs calls hasSkillMd and readdir on
RECURSIVE findVisits(_, _, _)
RECURSIVE visitsInEntries(_, _, _)
findVisits(tree, dir, depth) ==
  IF depth > maxDepth THEN <<>>
  ELSE <<dir>> \o visitsInEntries(tree, readdirDirs(tree, dir, 1, <<>>), depth)
visitsInEntries(tree, entries, depth) ==
  IF entries = <<>> THEN <<>>
  ELSE (IF Head(entries)[Len(Head(entries))] \notin SKIP_DIRS
        THEN findVisits(tree, Head(entries), depth + 1)
        ELSE <<>>)
       \o visitsInEntries(tree, Tail(entries), depth)

discoverSkillsRunPastDirect(tree, basePath, searchPath) ==
  \* the mutant: the early return of lines 79-85 is missing
  LET fallback(found) ==
        IF Len(found) = 0
        THEN [skills |-> collect(tree, basePath, findSkillDirs(tree, searchPath, 0), <<>>),
              listed |-> prioritySearchDirs(searchPath), walked |-> TRUE,
              visits |-> findVisits(tree, searchPath, 0)]
        ELSE [skills |-> found, listed |-> prioritySearchDirs(searchPath),
              walked |-> FALSE, visits |-> <<>>]
  IN fallback(collect(tree, basePath,
                      priorityCandidates(tree, prioritySearchDirs(searchPath)), <<>>))

discoverSkillsRunAlwaysWalking(tree, basePath, searchPath) ==
  \* the mutant: the walk does not depend on what the priority loop found
  LET fallback(found) ==
        [skills |-> collect(tree, basePath, findSkillDirs(tree, searchPath, 0), found),
         listed |-> prioritySearchDirs(searchPath), walked |-> TRUE,
         visits |-> findVisits(tree, searchPath, 0)]
      direct(skill) ==
        IF hasSkillMd(tree, searchPath) /\ skill # NoSkill
        THEN [skills |-> <<skill>>, listed |-> <<>>, walked |-> FALSE, visits |-> <<>>]
        ELSE fallback(collect(tree, basePath,
                              priorityCandidates(tree, prioritySearchDirs(searchPath)), <<>>))
  IN direct(parseSkillMd(tree, basePath, searchPath))

\* discoverSkills with what it did: the skills returned, the priority
\* locations readdir was called on, whether findSkillDirs ran, and the
\* directories it went through.
\* searchPath: the directory join(basePath, subpath), as names below basePath
discoverSkillsRun(tree, basePath, searchPath) ==
  LET fallback(found) ==
        IF Len(found) = 0
        THEN [skills |-> collect(tree, basePath, findSkillDirs(tree, searchPath, 0), <<>>),
              listed |-> prioritySearchDirs(searchPath), walked |-> TRUE,
              visits |-> findVisits(tree, searchPath, 0)]
        ELSE [skills |-> found, listed |-> prioritySearchDirs(searchPath),
              walked |-> FALSE, visits |-> <<>>]
      direct(skill) ==
        IF hasSkillMd(tree, searchPath) /\ skill # NoSkill
        THEN [skills |-> <<skill>>, listed |-> <<>>, walked |-> FALSE, visits |-> <<>>]
        ELSE fallback(collect(tree, basePath,
                              priorityCandidates(tree, prioritySearchDirs(searchPath)), <<>>))
  IN direct(parseSkillMd(tree, basePath, searchPath))

discoverSkills(tree, basePath, searchPath) ==
  discoverSkillsRun(tree, basePath, searchPath).skills

(***************************************************************************)
(* manifest.ts: validateManifestEntry, parseManifestFile (entries without  *)
(* locations), groupSkillsBySource.                                        *)
(***************************************************************************)
Digits == {"0", "1", "2", "3", "4", "5", "6", "7", "8", "9"}
WordChars == Digits \cup {"a", "b", "x", "A", "B", "_"}
LATEST == <<"l", "a", "t", "e", "s", "t">>

SuffixOk(s) ==
  \* (-[\w.]+)?(\+[\w.]+)?$
  LET build(t) == t # <<>> /\ Head(t) = "+" /\ Len(t) > 1
                  /\ Range(Tail(t)) \subseteq (WordChars \cup {DOT})
  IN \/ s = <<>>
     \/ build(s)
     \/ /\ Head(s) = "-"
        /\ LET after == Tail(s)
               left == StripLeading(after, WordChars \cup {DOT})
           IN Len(left) < Len(after) /\ (left = <<>> \/ build(left))

semverRegex(v) ==
  \* /^\d+\.\d+\.\d+(-[\w.]+)?(\+[\w.]+)?$/
  LET r1 == StripLeading(v, Digits)
      r2 == IF r1 # <<>> THEN StripLeading(Tail(r1), Digits) ELSE <<>>
      r3 == IF r2 # <<>> THEN StripLeading(Tail(r2), Digits) ELSE <<>>
  IN /\ Len(r1) < Len(v) /\ r1 # <<>> /\ Head(r1) = DOT
     /\ Len(r2) < Len(r1) - 1 /\ r2 # <<>> /\ Head(r2) = DOT
     /\ Len(r3) < Len(r2) - 1
     /\ SuffixOk(r3)

Contains(s, sub) ==
  \E i \in 1..(Len(s) - Len(sub) + 1) : SubSeq(s, i, i + Len(sub) - 1) = sub

validateManifestEntry(entry) ==
  \* TRUE when the entry passes, FALSE when the function throws
  LET segs == Split(entry.source)
      isShorthand == Len(segs) = 2 /\ segs[1] # <<>> /\ segs[2] # <<>>
      isUrl == \/ Contains(entry.source, <<COLON, SEP, SEP>>)
               \/ startsWith(entry.source, <<"git", AT>>)
  IN /\ (isShorthand \/ isUrl)
     /\ (entry.version # NoVersion /\ entry.version # LATEST => semverRegex(entry.version))

\* the first index at which the loop of parseManifestFile throws, 0 if none
RECURSIVE FirstBad(_, _)
FirstBad(raw, i) ==
  IF i > Len(raw) THEN 0
  ELSE IF raw[i].source = <<>> \/ raw[i].name = <<>> \/ ~validateManifestEntry(raw[i])
       THEN i
       ELSE FirstBad(raw, i + 1)

Unreadable == <<[source |-> <<"?">>, name |-> <<"?">>, version |-> <<"?">>]>>

\* an error thrown while parsing: its class, its message and, when the
\* message holds the index of an entry, that index (counted from 0)
NoParseError == [name |-> "", text |-> "", index |-> <<>>]
ParseError(name, text, index) == [name |-> name, text |-> text, index |-> index]

\* the error of the entry at position i (from 1) of the file: lines 156-168
\* throw ManifestParseError with the index, validateManifestEntry (line 217)
\* throws a plain Error whose message quotes the source, or the version and
\* the name
EntryError(raw, i) ==
  IF raw[i].source = <<>>
  THEN ParseError("ManifestParseError", "missing required \"source\" field", <<i - 1>>)
  ELSE IF raw[i].name = <<>>
  THEN ParseError("ManifestParseError", "missing required \"name\" field", <<i - 1>>)
  ELSE LET segs == Split(raw[i].source)
           isShorthand == Len(segs) = 2 /\ segs[1] # <<>> /\ segs[2] # <<>>
           isUrl == \/ Contains(raw[i].source, <<COLON, SEP, SEP>>)
                    \/ startsWith(raw[i].source, <<"git", AT>>)
       IN IF ~(isShorthand \/ isUrl)
          THEN ParseError("Error", "Invalid source", <<>>)
          ELSE ParseError("Error", "Invalid version", <<>>)

parseManifestFile(raw) ==
  \* raw: the [[skills]] records of the file, or Unreadable for a file that
  \* cannot be read, is no TOML or has no skills array
  IF raw = Unreadable
  THEN [ok |-> FALSE, index |-> 0, skills |-> <<>>,
        error |-> ParseError("ManifestParseError", "Could not read manifest file", <<>>)]
  ELSE IF FirstBad(raw, 1) # 0
  THEN [ok |-> FALSE, index |-> FirstBad(raw, 1), skills |-> <<>>,
        error |-> EntryError(raw, FirstBad(raw, 1))]
  ELSE IF Len(raw) = 0
  THEN [ok |-> FALSE, index |-> 0, skills |-> <<>>,
        error |-> ParseError("ManifestParseError", "Manifest file contains no skill entries", <<>>)]
  ELSE [ok |-> TRUE, index |-> 0, skills |-> raw, error |-> NoParseError]

GroupKey(skill) ==
  IF skill.version # NoVersion THEN skill.source \o <<AT>> \o skill.version ELSE skill.source

RECURSIVE groupInto(_, _)
groupInto(skills, grouped) ==
  \* grouped: the Map in insertion order, a sequence of [key, entries]
  IF skills = <<>> THEN grouped
  ELSE LET skill == Head(skills)
           key == GroupKey(skill)
           at == {i \in 1..Len(grouped) : grouped[i].key = key}
       IN IF at = {}
          THEN groupInto(Tail(skills), Append(grouped, [key |-> key, entries |-> <<skill>>]))
          ELSE LET i == CHOOSE j \in at : TRUE
               IN groupInto(Tail(skills),
                            [grouped EXCEPT ![i].entries = Append(@, skill)])

groupSkillsBySource(skills) == groupInto(skills, <<>>)

toLowerCase(s) ==
  [i \in 1..Len(s) |-> CASE s[i] = "A" -> "a" [] s[i] = "B" -> "b" [] OTHER -> s[i]]

(***************************************************************************)
(* The inputs of the model.                                                *)
(***************************************************************************)
V1 == <<"1", DOT, "0", DOT, "0">>
V2 == <<"2", DOT, "0", DOT, "0">>
AcmeTools == <<"acme", SEP, "tools">>
AcmeToolsAtV2 == <<"acme", SEP, "tools", AT>> \o V2

Entry(source, name, version) == [source |-> source, name |-> name, version |-> version]

ValidEntries ==
  { Entry(AcmeTools, <<"A">>, NoVersion),
    Entry(AcmeTools, <<"b">>, NoVersion),
    Entry(AcmeTools, <<"A">>, V2),
    Entry(AcmeToolsAtV2, <<"b">>, NoVersion) }

InvalidEntries ==
  { Entry(<<>>, <<"A">>, NoVersion),
    Entry(AcmeTools, <<>>, NoVersion),
    Entry(<<"acme">>, <<"A">>, NoVersion),
    Entry(AcmeTools, <<"A">>, <<"x">>) }

RawManifests == {Unreadable} \cup SeqsUpTo(ValidEntries \cup InvalidEntries, MaxEntries)

\* what discoverSkills can return: descriptors with distinct names
SkillDescs ==
  [name : {<<"a">>}, version : {NoVersion, V1, V2}] \cup [name : {<<"B">>}, version : {NoVersion}]
DiscoveredLists ==
  {l \in SeqsUpTo(SkillDescs, MaxDiscovered) :
     \A i, j \in 1..Len(l) : i # j => l[i].name # l[j].name}

TmpDir == <<SEP, "tmp">>
TmpPath(dir) == TmpDir \o <<SEP, "add-skill-", ToString(dir)>>

Skill(desc, tempDir) ==
  [name |-> desc.name, version |-> desc.version,
   path |-> TmpPath(tempDir) \o <<SEP, "skills", SEP>> \o desc.name]

\* nonempty selections of agents, in registry order
AgentSeqs ==
  {l \in SeqsUpTo(Range(AllAgents), Len(AllAgents)) :
     /\ l # <<>>
     /\ \A i, j \in 1..Len(l) : i < j =>
          \E a, b \in 1..Len(AllAgents) : a < b /\ AllAgents[a] = l[i] /\ AllAgents[b] = l[j]}

(***************************************************************************)
(* The state.                                                              *)
(***************************************************************************)
VARIABLES
  pc,               \* the position of the run
  yes,              \* options.yes
  manifest,         \* manifest.skills
  skillsBySource,   \* the Map of groupSkillsBySource, in insertion order
  gi,               \* the group the for-of loop is at
  ei,               \* the entry of the group the inner loop is at
  cur,              \* tempDir and resolvedRef of the group at hand
  discoveredSkills, \* discoveredSkills of the group at hand
  tempDirs,         \* tempDirs of installFromManifest
  tmpCreated,       \* every directory mkdtemp has made
  tmpExisting,      \* the directories of tmpCreated that are on disk
  skillsToInstall,
  lockEntries,
  warnings,         \* the messages of p.log.warn
  cloneCalls,       \* the calls of cloneRepoAtVersion: [source, url, version, attempts]
  discoverCalls,    \* the number of calls of discoverSkills
  targetAgents,
  installGlobally,
  results,
  fsWrites,         \* the mkdir and cp calls performed, each with its target base
  lockFile,         \* the entries of the lock file on disk
  lockWrites,       \* the number of writeLockFile calls that wrote
  exitCode,
  fatal,            \* the error that ended the run
  instReq,          \* the arguments of a single installSkillForAgent call
  disk,             \* the files and directories on disk, and the installs made on them
  srcCall,          \* an input of parseSource and what it returned
  scan,             \* a tree, the directory searched in it and what discoverSkills returned
  tmpCall,          \* a directory handed to cleanup, the disk and what the call did
  pairCall,         \* two packages of one discovery pass and where each is installed
  locCall,          \* a name, an agent and a location, and what the location functions returned
  rerun             \* a manifest, a remote state and the lock entries of the runs made on them

vars ==
  <<pc, yes, manifest, skillsBySource, gi, ei, cur, discoveredSkills, tempDirs,
    tmpCreated, tmpExisting, skillsToInstall, lockEntries, warnings, cloneCalls,
    discoverCalls, targetAgents, installGlobally, results, fsWrites, lockFile,
    lockWrites, exitCode, fatal, instReq, disk, srcCall, scan, rerun,
    tmpCall, pairCall, locCall>>

\* the variables of the manifest pipeline and of the single install call
main ==
  <<pc, yes, manifest, skillsBySource, gi, ei, cur, discoveredSkills, tempDirs,
    tmpCreated, tmpExisting, skillsToInstall, lockEntries, warnings, cloneCalls,
    discoverCalls, targetAgents, installGlobally, results, fsWrites, lockFile,
    lockWrites, exitCode, fatal, instReq>>

\* the variables the manifest pipeline never touches
aux == <<disk, srcCall, scan, rerun>>

\* the arguments and results of single calls
calls == <<tmpCall, pairCall, locCall>>

NoFatal ==
  [kind |-> "none", skillName |-> <<>>, source |-> <<>>, availableSkills |-> <<>>,
   error |-> NoParseError, input |-> <<>>]
Fatal(kind) == [NoFatal EXCEPT !.kind = kind]
SkillNotFoundError(skillName, source, availableSkills) ==
  [kind |-> "SkillNotFoundError", skillName |-> skillName, source |-> source,
   availableSkills |-> availableSkills, error |-> NoParseError, input |-> <<>>]

NoCur == [tempDir |-> 0, resolvedRef |-> <<>>]
NoReq == [name |-> <<>>, path |-> <<>>, agent |-> "", global |-> FALSE, failAt |-> 0]
NoDisk == [fs |-> {}, installs |-> <<>>]
NoSrcCall == [input |-> <<>>, parsed |-> [type |-> "", url |-> <<>>, subpath |-> <<>>], done |-> FALSE]
NoScan ==
  [tree |-> <<>>, searchPath |-> <<>>, skills |-> <<>>, listed |-> <<>>, walked |-> FALSE,
   visits |-> <<>>, done |-> FALSE]
NoRerun == [manifest |-> <<>>, remote |-> <<>>, runs |-> <<>>, made |-> 0]
NoTmpCall == [dir |-> <<>>, fs |-> {}, after |-> {}, raised |-> FALSE, propagated |-> FALSE, done |-> FALSE]
NoPairCall == [a |-> <<>>, b |-> <<>>, agent |-> "", global |-> FALSE, dirA |-> <<>>, dirB |-> <<>>, done |-> FALSE]
NoLocCall == [name |-> <<>>, agent |-> "", location |-> <<>>, accepted |-> FALSE, resolved |-> [threw |-> FALSE, path |-> <<>>, base |-> <<>>, error |-> ""], installed |-> [success |-> FALSE, path |-> <<>>, error |-> "", ops |-> <<>>], reported |-> [threw |-> FALSE, path |-> <<>>, base |-> <<>>, error |-> ""], done |-> FALSE]
Running == -1

Idle ==
  /\ manifest = <<>>
  /\ skillsBySource = <<>>
  /\ gi = 0
  /\ ei = 0
  /\ cur = NoCur
  /\ discoveredSkills = <<>>
  /\ tempDirs = <<>>
  /\ tmpCreated = {}
  /\ tmpExisting = {}
  /\ skillsToInstall = <<>>
  /\ lockEntries = <<>>
  /\ warnings = <<>>
  /\ cloneCalls = <<>>
  /\ discoverCalls = 0
  /\ targetAgents = <<>>
  /\ installGlobally = FALSE
  /\ results = <<>>
  /\ fsWrites = {}
  /\ lockFile = <<>>
  /\ lockWrites = 0
  /\ exitCode = Running
  /\ fatal = NoFatal

CallsIdle ==
  /\ tmpCall = NoTmpCall
  /\ pairCall = NoPairCall
  /\ locCall = NoLocCall

AuxIdle ==
  /\ disk = NoDisk
  /\ srcCall = NoSrcCall
  /\ scan = NoScan
  /\ rerun = NoRerun
  /\ CallsIdle

Init ==
  /\ pc = "start"
  /\ yes \in BOOLEAN
  /\ instReq = NoReq
  /\ Idle
  /\ AuxIdle

(***************************************************************************)
(* part_000: installFromManifest.                                          *)
(***************************************************************************)
cleanupTempDir(dir, existing) ==
  \* git.ts: rm only below os.tmpdir(); otherwise it throws, and cleanup()
  \* swallows the error
  LET normalizedDir == normalize(resolve(TmpPath(dir)))
      normalizedTmpDir == normalize(resolve(TmpDir))
  IN IF ~startsWith(normalizedDir, Append(normalizedTmpDir, SEP))
        /\ normalizedDir # normalizedTmpDir
     THEN existing
     ELSE existing \ {dir}

RECURSIVE cleanupAll(_, _)
cleanupAll(dirs, existing) ==
  IF dirs = <<>> THEN existing
  ELSE cleanupAll(Tail(dirs), cleanupTempDir(Head(dirs), existing))

\* process.exit(code): nothing runs after it, not even a pending finally
Exit(code, err) ==
  /\ pc' = "exited"
  /\ exitCode' = code
  /\ fatal' = err

\* lines 353-361: --skill and --list are refused with --from-file
RejectOptions ==
  /\ pc = "start"
  /\ \E option \in {"skill", "list"} : Exit(1, Fatal(option))
  /\ UNCHANGED <<yes, manifest, skillsBySource, gi, ei, cur, discoveredSkills, tempDirs,
                 tmpCreated, tmpExisting, skillsToInstall, lockEntries, warnings,
                 cloneCalls, discoverCalls, targetAgents, installGlobally, results,
                 fsWrites, lockFile, lockWrites, instReq, aux, calls>>

\* lines 363-381
ParseManifest ==
  /\ pc = "start"
  /\ \E raw \in RawManifests :
       LET parsed == parseManifestFile(raw)
       IN IF parsed.ok
          THEN /\ manifest' = parsed.skills
               /\ skillsBySource' = groupSkillsBySource(parsed.skills)
               /\ gi' = 1
               /\ pc' = "clone"
               /\ UNCHANGED <<exitCode, fatal>>
          ELSE /\ Exit(1, [Fatal("ManifestParseError") EXCEPT !.error = parsed.error,
                                                              !.input = raw])
               /\ UNCHANGED <<manifest, skillsBySource, gi>>
  /\ UNCHANGED <<yes, ei, cur, discoveredSkills, tempDirs, tmpCreated, tmpExisting,
                 skillsToInstall, lockEntries, warnings, cloneCalls, discoverCalls,
                 targetAgents, installGlobally, results, fsWrites, lockFile, lockWrites,
                 instReq, aux, calls>>

\* lines 388-399: a thrown error reaches the catch of line 620, which exits
CloneGroup ==
  /\ pc = "clone"
  /\ \E env \in CloneEnvs, firstEntry \in {skillsBySource[gi].entries[1]} :
     \E parsed \in {parseSource(firstEntry.source)} :
     \E r \in {cloneRepoAtVersion(parsed.url, firstEntry.version, env, Cardinality(tmpCreated))} :
          /\ tmpCreated' = tmpCreated \cup r.created
          /\ tmpExisting' = tmpExisting \cup r.existing
          /\ cloneCalls' = Append(cloneCalls, [source |-> firstEntry.source, url |-> parsed.url,
                                               version |-> firstEntry.version,
                                               attempts |-> r.attempts,
                                               resolvedRef |-> r.resolvedRef,
                                               answers |-> [k \in 1..Len(r.attempts) |->
                                                  CloneAnswer(env, firstEntry.version, r.attempts[k])]])
          /\ IF r.ok
             THEN /\ tempDirs' = Append(tempDirs, r.tempDir)
                  /\ cur' = [tempDir |-> r.tempDir, resolvedRef |-> r.resolvedRef]
                  /\ pc' = "discover"
                  /\ UNCHANGED <<exitCode, fatal>>
             ELSE /\ Exit(1, [Fatal("CloneError") EXCEPT !.source = firstEntry.source])
                  /\ UNCHANGED <<tempDirs, cur>>
  /\ UNCHANGED <<yes, manifest, skillsBySource, gi, ei, discoveredSkills, skillsToInstall,
                 lockEntries, warnings, discoverCalls, targetAgents, installGlobally,
                 results, fsWrites, lockFile, lockWrites, instReq, aux, calls>>

\* lines 401-403
DiscoverGroup ==
  /\ pc = "discover"
  /\ \E found \in DiscoveredLists :
       discoveredSkills' = [i \in 1..Len(found) |-> Skill(found[i], cur.tempDir)]
  /\ discoverCalls' = discoverCalls + 1
  /\ ei' = 1
  /\ pc' = "match"
  /\ UNCHANGED <<yes, manifest, skillsBySource, gi, cur, tempDirs, tmpCreated, tmpExisting,
                 skillsToInstall, lockEntries, warnings, cloneCalls, targetAgents,
                 installGlobally, results, fsWrites, lockFile, lockWrites, exitCode,
                 fatal, instReq, aux, calls>>

findCaseSensitive(skills, name) ==
  \* the mutant: the names are compared as written
  LET hits == {i \in 1..Len(skills) : skills[i].name = name}
  IN IF hits = {} THEN 0 ELSE CHOOSE i \in hits : \A j \in hits : i <= j

find(skills, name) ==
  \* the index of the first skill whose name matches, 0 if none
  LET hits == {i \in 1..Len(skills) : toLowerCase(skills[i].name) = toLowerCase(name)}
  IN IF hits = {} THEN 0 ELSE CHOOSE i \in hits : \A j \in hits : i <= j

LockVersionPrefersSkill(entry, skill) ==
  \* the mutant: the package's declared version is looked at first
  IF skill.version # NoVersion THEN skill.version
  ELSE IF entry.version # NoVersion THEN entry.version
  ELSE LATEST

LockVersion(entry, skill) ==
  IF entry.version # NoVersion THEN entry.version
  ELSE IF skill.version # NoVersion THEN skill.version
  ELSE LATEST

LockEntryNamingSkill(entry, skill, resolvedRef) ==
  \* the mutant: the discovered package's name is recorded, not the entry's
  [source |-> entry.source, name |-> skill.name, version |-> LockVersion(entry, skill),
   resolvedRef |-> resolvedRef]

LockEntry(entry, skill, resolvedRef) ==
  [source |-> entry.source, name |-> entry.name, version |-> LockVersion(entry, skill),
   resolvedRef |-> resolvedRef]

EntryWarnings(entry, skill) ==
  IF entry.version # NoVersion /\ validateSkillVersion(skill, entry.version).message # NoMessage
  THEN <<validateSkillVersion(skill, entry.version).message>>
  ELSE <<>>

\* the mutant: the lock file is rewritten after every matched entry
MatchEntryWritingLock ==
  /\ pc = "match"
  /\ LET entries == skillsBySource[gi].entries
         entry == entries[ei]
         at == find(discoveredSkills, entry.name)
     IN IF at = 0
        THEN /\ Exit(1, SkillNotFoundError(entry.name, entry.source,
                          [i \in 1..Len(discoveredSkills) |-> discoveredSkills[i].name]))
             /\ UNCHANGED <<skillsToInstall, lockEntries, warnings, gi, ei, cur,
                            discoveredSkills, lockFile, lockWrites>>
        ELSE LET skill == discoveredSkills[at]
             IN /\ warnings' = warnings \o EntryWarnings(entry, skill)
                /\ skillsToInstall' = Append(skillsToInstall,
                     [skill |-> skill, entry |-> entry, resolvedRef |-> cur.resolvedRef])
                /\ lockEntries' = Append(lockEntries, LockEntry(entry, skill, cur.resolvedRef))
                /\ lockFile' = lockEntries'
                /\ lockWrites' = lockWrites + 1
                /\ IF ei < Len(entries)
                   THEN /\ ei' = ei + 1
                        /\ UNCHANGED <<gi, cur, discoveredSkills, pc>>
                   ELSE /\ ei' = 0
                        /\ gi' = gi + 1
                        /\ cur' = NoCur
                        /\ discoveredSkills' = <<>>
                        /\ pc' = IF gi < Len(skillsBySource) THEN "clone" ELSE "agents"
                /\ UNCHANGED <<exitCode, fatal>>
  /\ UNCHANGED <<yes, manifest, skillsBySource, tempDirs, tmpCreated, tmpExisting,
                 cloneCalls, discoverCalls, targetAgents, installGlobally, results,
                 fsWrites, instReq, aux, calls>>

\* lines 406-437, one turn of the inner loop
\* the mkdir and cp calls of an install, with its target base
Writes(r) == {[op |-> r.ops[i].op, path |-> r.ops[i].path, base |-> r.base] : i \in 1..Len(r.ops)}

MatchEntryInstalling ==
  \* the mutant: each package is installed as soon as it is matched
  /\ pc = "match"
  /\ LET entries == skillsBySource[gi].entries
         entry == entries[ei]
         at == find(discoveredSkills, entry.name)
     IN IF at = 0
        THEN /\ Exit(1, SkillNotFoundError(entry.name, entry.source,
                          [i \in 1..Len(discoveredSkills) |-> discoveredSkills[i].name]))
             /\ UNCHANGED <<skillsToInstall, lockEntries, warnings, gi, ei, cur,
                            discoveredSkills,
                            fsWrites>>
        ELSE LET skill == discoveredSkills[at]
             IN /\ warnings' = warnings \o EntryWarnings(entry, skill)
                /\ skillsToInstall' = Append(skillsToInstall,
                     [skill |-> skill, entry |-> entry, resolvedRef |-> cur.resolvedRef])
                /\ lockEntries' = Append(lockEntries, LockEntry(entry, skill, cur.resolvedRef))
                /\ IF ei < Len(entries)
                   THEN /\ ei' = ei + 1
                        /\ UNCHANGED <<gi, cur, discoveredSkills, pc>>
                   ELSE /\ ei' = 0
                        /\ gi' = gi + 1
                        /\ cur' = NoCur
                        /\ discoveredSkills' = <<>>
                        /\ pc' = IF gi < Len(skillsBySource) THEN "clone" ELSE "agents"
                /\ UNCHANGED <<exitCode, fatal>>
                /\ fsWrites' = fsWrites \cup Writes(installSkillForAgent(skill, AllAgents[1], FALSE, 0))
  /\ UNCHANGED <<yes, manifest, skillsBySource, tempDirs, tmpCreated, tmpExisting,
                 cloneCalls, discoverCalls, targetAgents, installGlobally, results,
                 lockFile, lockWrites, instReq, aux, calls>>

MatchEntry ==
  /\ pc = "match"
  /\ LET entries == skillsBySource[gi].entries
         entry == entries[ei]
         at == find(discoveredSkills, entry.name)
     IN IF at = 0
        THEN /\ Exit(1, SkillNotFoundError(entry.name, entry.source,
                          [i \in 1..Len(discoveredSkills) |-> discoveredSkills[i].name]))
             /\ UNCHANGED <<skillsToInstall, lockEntries, warnings, gi, ei, cur,
                            discoveredSkills>>
        ELSE LET skill == discoveredSkills[at]
             IN /\ warnings' = warnings \o EntryWarnings(entry, skill)
                /\ skillsToInstall' = Append(skillsToInstall,
                     [skill |-> skill, entry |-> entry, resolvedRef |-> cur.resolvedRef])
                /\ lockEntries' = Append(lockEntries, LockEntry(entry, skill, cur.resolvedRef))
                /\ IF ei < Len(entries)
                   THEN /\ ei' = ei + 1
                        /\ UNCHANGED <<gi, cur, discoveredSkills, pc>>
                   ELSE /\ ei' = 0
                        /\ gi' = gi + 1
                        /\ cur' = NoCur
                        /\ discoveredSkills' = <<>>
                        /\ pc' = IF gi < Len(skillsBySource) THEN "clone" ELSE "agents"
                /\ UNCHANGED <<exitCode, fatal>>
  /\ UNCHANGED <<yes, manifest, skillsBySource, tempDirs, tmpCreated, tmpExisting,
                 cloneCalls, discoverCalls, targetAgents, installGlobally, results,
                 fsWrites, lockFile, lockWrites, instReq, aux, calls>>

\* an exit after cleanupAll(tempDirs): lines 450, 480, 505, 527, 557
ExitAfterCleanup(code, err) ==
  /\ tmpExisting' = cleanupAll(tempDirs, tmpExisting)
  /\ Exit(code, err)

Cancelled == <<>>
AgentInputs ==
  [kind : {"invalid", "given", "detect"}, agents : AgentSeqs,
   installed : AgentSeqs \cup {<<>>}, answer : AgentSeqs \cup {Cancelled}]

\* lines 440-511: the agents to install to, or Cancelled
selectAgents(in) ==
  IF in.kind = "given" THEN in.agents
  ELSE IF Len(in.installed) = 0
       THEN IF yes THEN AllAgents ELSE in.answer
       ELSE IF Len(in.installed) = 1 \/ yes THEN in.installed
            ELSE IF Range(in.answer) \subseteq Range(in.installed) THEN in.answer
                 ELSE Cancelled

DetermineAgents ==
  /\ pc = "agents"
  /\ \E in \in AgentInputs :
       IF in.kind = "invalid"
       THEN /\ ExitAfterCleanup(1, Fatal("InvalidAgents"))
            /\ UNCHANGED targetAgents
       ELSE IF selectAgents(in) = Cancelled
       THEN /\ ExitAfterCleanup(0, Fatal("Cancelled"))
            /\ UNCHANGED targetAgents
       ELSE /\ targetAgents' = selectAgents(in)
            /\ pc' = "scope"
            /\ UNCHANGED <<tmpExisting, exitCode, fatal>>
  /\ UNCHANGED <<yes, manifest, skillsBySource, gi, ei, cur, discoveredSkills, tempDirs,
                 tmpCreated, skillsToInstall, lockEntries, warnings, cloneCalls,
                 discoverCalls, installGlobally, results, fsWrites, lockFile, lockWrites,
                 instReq, aux, calls>>

\* lines 513-532
DetermineScope ==
  /\ pc = "scope"
  /\ \E global \in {"undefined", "true", "false"}, answer \in {"cancel", "project", "global"} :
       IF global = "undefined" /\ ~yes
       THEN IF answer = "cancel"
            THEN /\ ExitAfterCleanup(0, Fatal("Cancelled"))
                 /\ UNCHANGED installGlobally
            ELSE /\ installGlobally' = (answer = "global")
                 /\ pc' = "confirm"
                 /\ UNCHANGED <<tmpExisting, exitCode, fatal>>
       ELSE /\ installGlobally' = (global = "true")
            /\ pc' = "confirm"
            /\ UNCHANGED <<tmpExisting, exitCode, fatal>>
  /\ UNCHANGED <<yes, manifest, skillsBySource, gi, ei, cur, discoveredSkills, tempDirs,
                 tmpCreated, skillsToInstall, lockEntries, warnings, cloneCalls,
                 discoverCalls, targetAgents, results, fsWrites, lockFile, lockWrites,
                 instReq, aux, calls>>

\* lines 534-563
Confirm ==
  /\ pc = "confirm"
  /\ \E answer \in {"cancel", "no", "yes"} :
       IF ~yes /\ answer # "yes"
       THEN ExitAfterCleanup(0, Fatal("Cancelled"))
       ELSE /\ pc' = "install"
            /\ UNCHANGED <<tmpExisting, exitCode, fatal>>
  /\ UNCHANGED <<yes, manifest, skillsBySource, gi, ei, cur, discoveredSkills, tempDirs,
                 tmpCreated, skillsToInstall, lockEntries, warnings, cloneCalls,
                 discoverCalls, targetAgents, installGlobally, results, fsWrites,
                 lockFile, lockWrites, instReq, aux, calls>>


\* the points at which an install of the pipeline may fail: not at all, or
\* at the first cp
PipelineFailPoints == {0, 3}

\* the mutant: a failed install is thrown and ends the run
InstallPairAbortingOnFailure ==
  /\ pc = "install"
  /\ LET k == Len(results) + 1
         si == ((k - 1) \div Len(targetAgents)) + 1
         ai == ((k - 1) % Len(targetAgents)) + 1
         skill == skillsToInstall[si].skill
         agent == targetAgents[ai]
     IN \E failAt \in PipelineFailPoints :
          LET r == installSkillForAgent(skill, agent, installGlobally, failAt)
          IN /\ results' = Append(results,
                  [skill |-> skill.name, agent |-> agent, success |-> r.success,
                   path |-> r.path, error |-> r.error])
             /\ fsWrites' = fsWrites \cup Writes(r)
             /\ IF r.success
                THEN /\ pc' = IF k = Len(skillsToInstall) * Len(targetAgents)
                               THEN "lock" ELSE "install"
                     /\ UNCHANGED <<exitCode, fatal>>
                ELSE Exit(1, Fatal("InstallError"))
  /\ UNCHANGED <<yes, manifest, skillsBySource, gi, ei, cur, discoveredSkills, tempDirs,
                 tmpCreated, tmpExisting, skillsToInstall, lockEntries, warnings,
                 cloneCalls, discoverCalls, targetAgents, installGlobally, lockFile,
                 lockWrites, instReq, aux, calls>>

\* lines 567-576, one turn of the inner loop
InstallPair ==
  /\ pc = "install"
  /\ LET k == Len(results) + 1
         si == ((k - 1) \div Len(targetAgents)) + 1
         ai == ((k - 1) % Len(targetAgents)) + 1
         skill == skillsToInstall[si].skill
         agent == targetAgents[ai]
     IN \E failAt \in PipelineFailPoints :
          LET r == installSkillForAgent(skill, agent, installGlobally, failAt)
          IN /\ results' = Append(results,
                  [skill |-> skill.name, agent |-> agent, success |-> r.success,
                   path |-> r.path, error |-> r.error])
             /\ fsWrites' = fsWrites \cup Writes(r)
             /\ pc' = IF k = Len(skillsToInstall) * Len(targetAgents) THEN "lock" ELSE "install"
  /\ UNCHANGED <<yes, manifest, skillsBySource, gi, ei, cur, discoveredSkills, tempDirs,
                 tmpCreated, tmpExisting, skillsToInstall, lockEntries, warnings,
                 cloneCalls, discoverCalls, targetAgents, installGlobally, lockFile,
                 lockWrites, exitCode, fatal, instReq, aux, calls>>

writeLockFile(entries) == entries

\* lines 578-636: the lock file, the report, then the finally of line 634;
\* a writeFile that throws reaches the catch of line 620, which exits
WriteLockAndFinish ==
  /\ pc = "lock"
  /\ \E lock \in BOOLEAN, writeFileOk \in BOOLEAN :
       IF lock /\ ~writeFileOk
       THEN /\ Exit(1, Fatal("LockWriteError"))
            /\ UNCHANGED <<lockFile, lockWrites, tmpExisting>>
       ELSE /\ lockFile' = IF lock THEN writeLockFile(lockEntries) ELSE lockFile
            /\ lockWrites' = IF lock THEN lockWrites + 1 ELSE lockWrites
            /\ ExitAfterCleanup(0, NoFatal)
  /\ UNCHANGED <<yes, manifest, skillsBySource, gi, ei, cur, discoveredSkills, tempDirs,
                 tmpCreated, skillsToInstall, lockEntries, warnings, cloneCalls,
                 discoverCalls, targetAgents, installGlobally, results, fsWrites,
                 instReq, aux, calls>>

Next ==
  \/ RejectOptions
  \/ ParseManifest
  \/ CloneGroup
  \/ DiscoverGroup
  \/ MatchEntry
  \/ DetermineAgents
  \/ DetermineScope
  \/ Confirm
  \/ InstallPair
  \/ WriteLockAndFinish

Spec == Init /\ [][Next]_vars

(***************************************************************************)
(* A single call of installSkillForAgent, on any name.                     *)
(***************************************************************************)
NameChars == {"a", DOT, SEP, BACKSLASH, COLON, NUL, SPACE}

InstallRequests ==
  [name : SeqsUpTo(NameChars, MaxNameLen),
   path : {TmpPath(1) \o <<SEP, "skills", SEP, "pkg">>},
   agent : Range(AllAgents),
   global : BOOLEAN,
   failAt : 0..MaxOps]

InitInstall ==
  /\ pc = "install-call"
  /\ yes = FALSE
  /\ instReq \in InstallRequests
  /\ Idle
  /\ AuxIdle

InstallCall ==
  /\ pc = "install-call"
  /\ LET r == installSkillForAgent([name |-> instReq.name, path |-> instReq.path],
                                   instReq.agent, instReq.global, instReq.failAt)
     IN /\ results' = <<[skill |-> instReq.name, agent |-> instReq.agent,
                         success |-> r.success, path |-> r.path, error |-> r.error]>>
        /\ fsWrites' = Writes(r)
  /\ pc' = "installed"
  /\ UNCHANGED <<yes, manifest, skillsBySource, gi, ei, cur, discoveredSkills, tempDirs,
                 tmpCreated, tmpExisting, skillsToInstall, lockEntries, warnings,
                 cloneCalls, discoverCalls, targetAgents, installGlobally, lockFile,
                 lockWrites, exitCode, fatal, instReq, aux, calls>>

NextInstall == InstallCall

SpecInstall == InitInstall /\ [][NextInstall]_vars

(***************************************************************************)
(* Repeated installs of one package for one agent, on a disk that may hold  *)
(* something at the target already.                                         *)
(***************************************************************************)
ReinstallRequests ==
  [name : SeqsUpTo({"a", DOT, SEP}, 2),
   path : {TmpPath(1) \o <<SEP, "skills", SEP, "pkg">>},
   agent : Range(AllAgents),
   global : BOOLEAN,
   failAt : 0..MaxOps]

\* what is on disk whatever the target: the package's content root, and
\* the working directory and the home directory
Elsewhere(src) ==
  {OnDisk(d, TRUE, "") : d \in Ancestors(src) \cup {Cwd, Home}}
    \cup {OnDisk(join(src, <<"SKILL.md">>), FALSE, "source")}

\* another package installed for the same agent
OtherPackage(targetBase) ==
  {OnDisk(d, TRUE, "") : d \in Ancestors(join(targetBase, <<"other">>))}
    \cup {OnDisk(join(join(targetBase, <<"other">>), <<"SKILL.md">>), FALSE, "old")}

\* what the target directory holds before the first install: nothing (the
\* directory is not there), files of an earlier install and a file of the
\* user's, a file in its place, a directory where a file is to go
AtTarget(targetDir) ==
  { {},
    {OnDisk(targetDir, TRUE, ""), OnDisk(join(targetDir, <<"SKILL.md">>), FALSE, "old"),
     OnDisk(join(targetDir, <<"notes.txt">>), FALSE, "old")},
    {OnDisk(targetDir, FALSE, "old")},
    {OnDisk(targetDir, TRUE, ""), OnDisk(join(targetDir, <<"SKILL.md">>), TRUE, "")},
    {OnDisk(targetDir, TRUE, ""), OnDisk(join(targetDir, <<"notes.txt">>), FALSE, "old"),
     OnDisk(join(targetDir, <<"ref">>), TRUE, ""),
     OnDisk(join(join(targetDir, <<"ref">>), <<"a.md">>), TRUE, "")} }

\* the agent's skills directory is there when something is in it
DiskBefore(src, targetBase, targetDir) ==
  {Elsewhere(src) \cup other \cup at
     \cup (IF at = {} THEN {} ELSE {OnDisk(d, TRUE, "") : d \in Ancestors(targetBase)})
   : other \in {{}, OtherPackage(targetBase)}, at \in AtTarget(targetDir)}

InitReinstall ==
  /\ pc = "reinstall"
  /\ yes = FALSE
  /\ instReq \in ReinstallRequests
  /\ \E r \in {installSkillForAgent([name |-> instReq.name, path |-> instReq.path],
                                    instReq.agent, instReq.global, 0)} :
     \E before \in DiskBefore(instReq.path, r.base, r.path) :
       disk = [fs |-> before, installs |-> <<>>]
  /\ srcCall = NoSrcCall
  /\ scan = NoScan
  /\ rerun = NoRerun
  /\ Idle
  /\ CallsIdle

InstallOnDisk ==
  /\ pc = "reinstall"
  /\ Len(disk.installs) < MaxInstalls
  /\ \E r \in {installOnDisk(disk.fs, [name |-> instReq.name, path |-> instReq.path],
                                instReq.agent, instReq.global, instReq.failAt)} :
       disk' = [fs |-> r.fs,
                 installs |-> Append(disk.installs,
                                     [success |-> r.success, path |-> r.path, before |-> disk.fs,
                                      fs |-> r.fs, ops |-> r.ops])]
  /\ UNCHANGED <<main, srcCall, scan, rerun, calls>>

NextReinstall == InstallOnDisk

SpecReinstall == InitReinstall /\ [][NextReinstall]_vars

(***************************************************************************)
(* A single call of cleanup, on any absolute path and any disk.            *)
(***************************************************************************)
PathChars == {SEP, "tmp", "x", DOT}
CleanupDirs ==
  {<<>>} \cup {<<SEP>> \o t : t \in SeqsUpTo(PathChars, MaxPathLen - 1)}

\* what may be on disk: the temp root, directories below it, a sibling
\* whose name starts like the root's, and an unrelated directory
DiskPaths ==
  { TmpDir, TmpDir \o <<SEP, "x">>, <<SEP, "tmp", "x">>, <<SEP, "x">> }

InitCleanup ==
  /\ pc = "cleanup-call"
  /\ yes = FALSE
  /\ instReq = NoReq
  /\ Idle
  /\ disk = NoDisk
  /\ srcCall = NoSrcCall
  /\ scan = NoScan
  /\ rerun = NoRerun
  /\ \E dir \in CleanupDirs, fs \in SUBSET DiskPaths :
       tmpCall = [NoTmpCall EXCEPT !.dir = dir, !.fs = fs]
  /\ pairCall = NoPairCall
  /\ locCall = NoLocCall

CleanupCall ==
  /\ pc = "cleanup-call"
  /\ ~tmpCall.done
  /\ \E r \in {cleanup(tmpCall.dir, TmpDir, tmpCall.fs)} :
       tmpCall' = [tmpCall EXCEPT !.after = r.fs, !.raised = r.raised,
                                  !.propagated = r.propagated, !.done = TRUE]
  /\ UNCHANGED <<main, aux, pairCall, locCall>>

NextCleanup == CleanupCall

SpecCleanup == InitCleanup /\ [][NextCleanup]_vars

(***************************************************************************)
(* Two packages of one discovery pass, installed for the same agent.       *)
(***************************************************************************)
\* names as parseSkillMd returns them: not empty
DiscoveredNames == SeqsUpTo({"a", DOT, SEP}, MaxPairNameLen) \ {<<>>}

InitPair ==
  /\ pc = "pair"
  /\ yes = FALSE
  /\ instReq = NoReq
  /\ Idle
  /\ disk = NoDisk
  /\ srcCall = NoSrcCall
  /\ scan = NoScan
  /\ rerun = NoRerun
  /\ tmpCall = NoTmpCall
  /\ locCall = NoLocCall
  /\ \E a \in DiscoveredNames, b \in DiscoveredNames, agent \in Range(AllAgents),
        global \in BOOLEAN :
       /\ a # b
       /\ pairCall = [NoPairCall EXCEPT !.a = a, !.b = b, !.agent = agent, !.global = global]

InstallBoth ==
  /\ pc = "pair"
  /\ ~pairCall.done
  /\ \E ra \in {installSkillForAgent(Skill([name |-> pairCall.a, version |-> NoVersion], 1),
                                     pairCall.agent, pairCall.global, 0)},
        rb \in {installSkillForAgent(Skill([name |-> pairCall.b, version |-> NoVersion], 1),
                                     pairCall.agent, pairCall.global, 0)} :
       pairCall' = [pairCall EXCEPT !.dirA = ra.path, !.dirB = rb.path, !.done = TRUE]
  /\ UNCHANGED <<main, aux, tmpCall, locCall>>

NextPair == InstallBoth

SpecPair == InitPair /\ [][NextPair]_vars

(***************************************************************************)
(* One name, one agent and one location, given to validateLocation and to  *)
(* the location functions of the installer.                                *)
(***************************************************************************)
LocChars == {"a", DOT, SEP, TILDE, COLON, NUL, SPACE}
Locations == {GLOBAL, PROJECT} \cup SeqsUpTo(LocChars, MaxLocLen)

\* names of a few characters, and names around the cap of sanitizeName
ShortNames == SeqsUpTo({"a", DOT, SEP}, 2)
LongNames ==
  {[i \in 1..n |-> "a"] \o t : n \in (NameCap - 2)..NameCap, t \in SeqsUpTo({"a", DOT, SPACE}, 2)}

InitLocation ==
  /\ pc = "location"
  /\ yes = FALSE
  /\ instReq = NoReq
  /\ Idle
  /\ disk = NoDisk
  /\ srcCall = NoSrcCall
  /\ scan = NoScan
  /\ rerun = NoRerun
  /\ tmpCall = NoTmpCall
  /\ pairCall = NoPairCall
  /\ \E agent \in Range(AllAgents) :
       \/ \E name \in ShortNames, location \in Locations :
            locCall = [NoLocCall EXCEPT !.name = name, !.agent = agent, !.location = location]
       \/ \E name \in LongNames, location \in {GLOBAL, PROJECT, <<"a">>} :
            locCall = [NoLocCall EXCEPT !.name = name, !.agent = agent, !.location = location]

LocationCall ==
  /\ pc = "location"
  /\ ~locCall.done
  /\ locCall' = [locCall EXCEPT
       !.accepted = validateLocation(locCall.location),
       !.resolved = resolveLocationPath(locCall.name, locCall.agent, locCall.location),
       !.installed = installSkillToLocation(
                       [name |-> locCall.name, path |-> TmpPath(1) \o <<SEP, "skills", SEP, "pkg">>],
                       locCall.agent, locCall.location),
       !.reported = getInstallPathForLocation(
                       IF locCall.name # <<>> THEN locCall.name ELSE <<"pkg">>,
                       locCall.agent, locCall.location),
       !.done = TRUE]
  /\ UNCHANGED <<main, aux, tmpCall, pairCall>>

NextLocation == LocationCall

SpecLocation == InitLocation /\ [][NextLocation]_vars

(***************************************************************************)
(* A single call of parseSource, on any input.                              *)
(***************************************************************************)
\* the segments an input is put together from, with "/" between them
SourceSegs ==
  { <<"o">>, <<"r", DOTGIT>>, <<GITHUB>>, <<GITLAB>>, <<"tree">>, <<"-">>,
    <<"https", COLON>>, <<"a", NL, "b">>, <<>> }

SourceInputs ==
  {JoinSegs(segs) : segs \in SeqsUpTo(SourceSegs, MaxSegs)}
  \cup { <<"https", COLON, SEP, SEP, GITHUB, SEP, "o", SEP, "r", SEP, "tree", SEP, "main", SEP,
           "skills", SEP, "x">>,
         <<"https", COLON, SEP, SEP, GITLAB, SEP, "o", SEP, "r", SEP, "-", SEP, "tree", SEP,
           "main", SEP, "skills">>,
         <<GITHUB, SEP, "o", SEP, "r", SEP, "tree", SEP, "main", SEP, "x", NL, "y">>,
         <<"git", AT, GITHUB, COLON, "o", SEP, "r", DOTGIT>> }

InitSource ==
  /\ pc = "source-call"
  /\ yes = FALSE
  /\ instReq = NoReq
  /\ disk = NoDisk
  /\ scan = NoScan
  /\ rerun = NoRerun
  /\ Idle
  /\ CallsIdle
  /\ \E input \in SourceInputs :
       srcCall = [NoSrcCall EXCEPT !.input = input]

SourceCall ==
  /\ pc = "source-call"
  /\ ~srcCall.done
  /\ srcCall' = [srcCall EXCEPT !.parsed = parseSource(srcCall.input), !.done = TRUE]
  /\ UNCHANGED <<pc, yes, manifest, skillsBySource, gi, ei, cur, discoveredSkills, tempDirs,
                 tmpCreated, tmpExisting, skillsToInstall, lockEntries, warnings,
                 cloneCalls, discoverCalls, targetAgents, installGlobally, results,
                 fsWrites, lockFile, lockWrites, exitCode, fatal, instReq, disk, scan, rerun, calls>>

NextSource == SourceCall

SpecSource == InitSource /\ [][NextSource]_vars

(***************************************************************************)
(* A single call of discoverSkills, on any tree.                            *)
(***************************************************************************)
\* the directories a tree may hold besides its root, in listing order
TreeDirs ==
  << <<"x">>,
     <<"skills", "y">>,
     <<"skills", "z">>,
     <<".claude", "skills", "x">>,
     <<"docs", "deep", "w">>,
     <<"node_modules", "m">>,
     <<"skills">>,
     <<"p1", "p2", "p3", "p4", "p5">>,
     <<"p1", "p2", "p3", "p4", "p5", "p6">> >>

\* what the SKILL.md of a directory may declare
TreeDescs ==
  {NoDesc, [name |-> <<"a">>, version |-> NoVersion], [name |-> <<"a">>, version |-> V1],
   [name |-> <<"B">>, version |-> NoVersion]}

RECURSIVE Listing(_, _, _)
Listing(dirs, present, desc) ==
  IF dirs = <<>> THEN <<>>
  ELSE (IF Head(dirs) \in present
        THEN <<[dir |-> Head(dirs), file |-> TRUE, desc |-> desc[Head(dirs)]]>>
        ELSE <<>>)
       \o Listing(Tail(dirs), present, desc)

Reverse(s) == [i \in 1..Len(s) |-> s[Len(s) + 1 - i]]

\* a tree: the root with or without a SKILL.md, and the directories of
\* present with one, listed in either order
Tree(present, desc, rootFile, rootDesc, reversed) ==
  <<[dir |-> <<>>, file |-> rootFile, desc |-> rootDesc]>>
    \o Listing(IF reversed THEN Reverse(TreeDirs) ELSE TreeDirs, present, desc)

\* at most MaxDirs directories with a SKILL.md below the root
Presents == {q \in SUBSET Range(TreeDirs) : Cardinality(q) <= MaxDirs}
RootDescs == {NoDesc, [name |-> <<"B">>, version |-> NoVersion]}

SearchPaths == {<<>>, <<"skills">>}

InitDiscover ==
  /\ pc = "discover-call"
  /\ yes = FALSE
  /\ instReq = NoReq
  /\ disk = NoDisk
  /\ srcCall = NoSrcCall
  /\ rerun = NoRerun
  /\ Idle
  /\ CallsIdle
  /\ \E present \in Presents, rootFile \in BOOLEAN, rootDesc \in RootDescs,
        reversed \in BOOLEAN, searchPath \in SearchPaths :
       \E desc \in [present -> TreeDescs] :
         scan = [NoScan EXCEPT !.tree = Tree(present, desc, rootFile, rootDesc, reversed),
                               !.searchPath = searchPath]

DiscoverCall ==
  /\ pc = "discover-call"
  /\ ~scan.done
  /\ \E r \in {discoverSkillsRun(scan.tree, TmpPath(1), scan.searchPath)} :
       scan' = [scan EXCEPT !.skills = r.skills, !.listed = r.listed, !.walked = r.walked,
                            !.visits = r.visits, !.done = TRUE]
  /\ UNCHANGED <<pc, yes, manifest, skillsBySource, gi, ei, cur, discoveredSkills, tempDirs,
                 tmpCreated, tmpExisting, skillsToInstall, lockEntries, warnings,
                 cloneCalls, discoverCalls, targetAgents, installGlobally, results,
                 fsWrites, lockFile, lockWrites, exitCode, fatal, instReq, disk, srcCall, rerun, calls>>

NextDiscover == DiscoverCall

SpecDiscover == InitDiscover /\ [][NextDiscover]_vars

(***************************************************************************)
(* Two runs of the reconciliation (part_000:388-438) of one manifest        *)
(* against one remote state. The remote state fixes what every clone and    *)
(* every discovery answers; the directories mkdtemp makes and the time of   *)
(* day differ from run to run.                                              *)
(***************************************************************************)
Remotes == [env : CloneEnvs, found : DiscoveredLists]
Clock == {"t1", "t2"}

ValidManifests == {raw \in RawManifests \ {Unreadable} : parseManifestFile(raw).ok}

\* lines 406-437 for the entries of one group, from entry j on
RECURSIVE matchEntries(_, _, _, _, _)
matchEntries(entries, j, discovered, resolvedRef, now) ==
  IF j > Len(entries) THEN [ok |-> TRUE, lockEntries |-> <<>>]
  ELSE LET at == find(discovered, entries[j].name)
       IN IF at = 0 THEN [ok |-> FALSE, lockEntries |-> <<>>]
          ELSE LET rest == matchEntries(entries, j + 1, discovered, resolvedRef, now)
               IN [ok |-> rest.ok,
                   lockEntries |->
                     <<[entry |-> LockEntry(entries[j], discovered[at], resolvedRef),
                        installedAt |-> now]>> \o rest.lockEntries]

\* lines 388-438 for the groups from g on; made counts the mkdtemp directories
RECURSIVE reconcile(_, _, _, _, _)
reconcile(groups, g, remote, made, now) ==
  IF g > Len(groups) THEN [ok |-> TRUE, lockEntries |-> <<>>, made |-> made]
  ELSE LET firstEntry == groups[g].entries[1]
           matched(r, nowMade) ==
             IF ~r.ok THEN [ok |-> FALSE, lockEntries |-> <<>>, made |-> nowMade]
             ELSE LET discovered == [i \in 1..Len(remote.found) |-> Skill(remote.found[i], r.tempDir)]
                      m == matchEntries(groups[g].entries, 1, discovered, r.resolvedRef, now)
                      rest == reconcile(groups, g + 1, remote, nowMade, now)
                  IN IF ~m.ok THEN [ok |-> FALSE, lockEntries |-> <<>>, made |-> nowMade]
                     ELSE [ok |-> rest.ok, lockEntries |-> m.lockEntries \o rest.lockEntries,
                           made |-> rest.made]
           cloned(r) == matched(r, made + Cardinality(r.created))
       IN cloned(cloneRepoAtVersion(parseSource(firstEntry.source).url, firstEntry.version,
                                    remote.env, made))

InitRerun ==
  /\ pc = "rerun"
  /\ yes = FALSE
  /\ instReq = NoReq
  /\ disk = NoDisk
  /\ srcCall = NoSrcCall
  /\ scan = NoScan
  /\ Idle
  /\ CallsIdle
  /\ \E m \in ValidManifests, remote \in Remotes :
       rerun = [manifest |-> parseManifestFile(m).skills, remote |-> remote,
                runs |-> <<>>, made |-> 0]

ReconcileRun ==
  /\ pc = "rerun"
  /\ Len(rerun.runs) < MaxRuns
  /\ \E now \in Clock :
     \E r \in {reconcile(groupSkillsBySource(rerun.manifest), 1, rerun.remote, rerun.made, now)} :
       rerun' = [rerun EXCEPT !.runs = Append(@, [ok |-> r.ok, lockEntries |-> r.lockEntries]),
                                 !.made = r.made]
  /\ UNCHANGED <<pc, yes, manifest, skillsBySource, gi, ei, cur, discoveredSkills, tempDirs,
                 tmpCreated, tmpExisting, skillsToInstall, lockEntries, warnings,
                 cloneCalls, discoverCalls, targetAgents, installGlobally, results,
                 fsWrites, lockFile, lockWrites, exitCode, fatal, instReq, disk, srcCall, scan, calls>>

NextRerun == ReconcileRun

SpecRerun == InitRerun /\ [][NextRerun]_vars

(***************************************************************************)
(* Properties of the installer (SpecInstall).                              *)
(***************************************************************************)
\* p is base or lies below it, segment by segment
Within(base, p) ==
  LET b == Segments(base)
      t == Segments(p)
  IN Len(t) >= Len(b) /\ SubSeq(t, 1, Len(b)) = b

\* p is an immediate child of base, named by a segment free of separators
ChildOf(base, p) ==
  LET b == Segments(base)
      t == Split(p)
  IN /\ p = Render(Segments(p))
     /\ Len(Segments(p)) = Len(b) + 1
     /\ SubSeq(Segments(p), 1, Len(b)) = b
     /\ Range(t[Len(t)]) \cap {SEP, BACKSLASH, COLON, NUL} = {}
     /\ t[Len(t)] \notin {<<DOT>>, <<DOT, DOT>>}

\* the names of the path-safety property: "../", "..\", a leading "/", a NUL
Dangerous(name) ==
  \/ Contains(name, <<DOT, DOT, SEP>>)
  \/ Contains(name, <<DOT, DOT, BACKSLASH>>)
  \/ (name # <<>> /\ Head(name) = SEP)
  \/ NUL \in Range(name)

\* C1: whatever the package name and the target base, every mkdir and every
\* copy of an install targets the target base or a path below it.
C1_WritesStayInTargetBase ==
  \A w \in fsWrites : Within(w.base, w.path)

C1_Witness ==
  /\ pc = "installed"
  /\ startsWith(instReq.name, <<DOT, DOT, SEP>>)
  /\ \E w \in fsWrites : w.op = "cp"

\* C2 as stated: a package name holding "../", "..\", a leading "/" or a NUL
\* is rejected with the traversal-detected error and nothing is written.
C2_DangerousNameRejected ==
  (pc = "installed" /\ Dangerous(instReq.name)) =>
    /\ results[1].success = FALSE
    /\ results[1].error = TraversalError
    /\ fsWrites = {}

\* C2 as amended: such a name is not rejected. It is sanitized, the install
\* path is an immediate child of the target base, the traversal check passes,
\* mkdir and copy run there and the install succeeds unless a filesystem
\* operation fails; the traversal-detected error never comes with a write.
C2_DangerousNameSanitized ==
  /\ (pc = "installed" /\ Dangerous(instReq.name)) =>
       /\ ChildOf(TargetBase(instReq.agent, instReq.global), results[1].path)
       /\ results[1].error # TraversalError
       /\ results[1].success = (instReq.failAt = 0)
       /\ (instReq.failAt # 1 =>
             [op |-> "mkdir", path |-> results[1].path,
              base |-> TargetBase(instReq.agent, instReq.global)] \in fsWrites)
  /\ (pc = "installed" /\ results[1].error = TraversalError) => fsWrites = {}

C2_Witness ==
  /\ pc = "installed"
  /\ Contains(instReq.name, <<DOT, DOT, BACKSLASH>>)
  /\ NUL \in Range(instReq.name)
  /\ results[1].success
  /\ fsWrites # {}

(***************************************************************************)
(* Properties of the manifest pipeline (Spec).                             *)
(***************************************************************************)
\* C3: every resolvedRef that cloneRepoAtVersion returns, and so every
\* resolvedRef of a lock entry, is a commit identifier, never the symbolic
\* name HEAD, a tag name or a branch name.
C3_ResolvedRefIsCommitId ==
  /\ (cur # NoCur => IsCommitId(cur.resolvedRef))
  /\ \A i \in 1..Len(lockEntries) : IsCommitId(lockEntries[i].resolvedRef)

\* C4: the groups partition the manifest, and the entries of one group share
\* the source and the version (or the lack of one) of its first entry.
C4_GroupsShareSourceAndVersion ==
  /\ \A g \in 1..Len(skillsBySource) :
       \A j \in 1..Len(skillsBySource[g].entries) :
         /\ skillsBySource[g].entries[j].source = skillsBySource[g].entries[1].source
         /\ skillsBySource[g].entries[j].version = skillsBySource[g].entries[1].version
  /\ \A i \in 1..Len(manifest) :
       Cardinality({g \in 1..Len(skillsBySource) :
                      manifest[i] \in Range(skillsBySource[g].entries)}) = 1

SourceVersionPairs == {<<manifest[i].source, manifest[i].version>> : i \in 1..Len(manifest)}

\* C5: once every group is reconciled, cloneRepoAtVersion and discoverSkills
\* have each run exactly once for every distinct (source, version-or-none)
\* of the manifest.
C5_OneRetrievalPerSourceAndVersion ==
  pc = "agents" =>
    /\ Len(cloneCalls) = Cardinality(SourceVersionPairs)
    /\ discoverCalls = Cardinality(SourceVersionPairs)

\* C6: a run that ends in a manifest parse failure, a retrieval failure or a
\* package that is not found has written no lock file.
C6_NoLockFileOnFatalError ==
  (pc = "exited" /\ fatal.kind \in {"ManifestParseError", "CloneError", "SkillNotFoundError"}) =>
    /\ exitCode = 1
    /\ lockWrites = 0
    /\ lockFile = <<>>

C6_Witness ==
  /\ pc = "exited"
  /\ fatal.kind = "SkillNotFoundError"
  /\ Len(lockEntries) >= 1
  /\ lockWrites = 0

\* C7: when the run has ended, on whatever path, no directory made by
\* mkdtemp is left on disk.
C7_TempDirsDeletedAtExit ==
  pc = "exited" => tmpExisting = {}

NoMatch(entry) ==
  \A i \in 1..Len(discoveredSkills) :
    toLowerCase(discoveredSkills[i].name) # toLowerCase(entry.name)

CurrentEntry == skillsBySource[gi].entries[ei]

MatchedSkill(entry) ==
  LET hits == {i \in 1..Len(discoveredSkills) :
                 toLowerCase(discoveredSkills[i].name) = toLowerCase(entry.name)}
  IN discoveredSkills[CHOOSE i \in hits : \A j \in hits : i <= j]

C8_Step ==
  /\ (pc = "match" /\ NoMatch(CurrentEntry)) =>
       /\ pc' = "exited"
       /\ exitCode' = 1
       /\ fatal' = SkillNotFoundError(CurrentEntry.name, CurrentEntry.source,
                     [i \in 1..Len(discoveredSkills) |-> discoveredSkills[i].name])
       /\ UNCHANGED <<skillsToInstall, lockEntries, results, fsWrites, lockFile,
                      lockWrites, cloneCalls, discoverCalls>>
  /\ pc = "exited" => UNCHANGED vars

C8_After ==
  (pc = "exited" /\ fatal.kind = "SkillNotFoundError") =>
    /\ NoMatch(CurrentEntry)
    /\ results = <<>>
    /\ fsWrites = {}
    /\ lockWrites = 0
    /\ lockFile = <<>>

\* C8: an entry whose name matches, case-insensitively, no discovered package
\* of its group ends the run with a SkillNotFoundError naming the entry's
\* name, its source and every discovered name; nothing is processed after it,
\* nothing is installed and no lock entry is added or written. An entry that
\* matches case-insensitively raises no such error.
C8_MissingPackageAborts ==
  [][C8_Step]_vars /\ []C8_After

C8_Witness ==
  /\ pc = "exited"
  /\ fatal.kind = "SkillNotFoundError"
  /\ fatal.skillName = <<"b">>
  /\ fatal.availableSkills = << <<"a">> >>
  /\ Len(lockEntries) = 1
  /\ lockEntries[1].name = <<"A">>

\* C9: the version of a lock entry is the manifest entry's version if it has
\* one, else the matched package's declared version if it has one, else
\* "latest".
C9_LockVersionPrecedence ==
  /\ Len(lockEntries) = Len(skillsToInstall)
  /\ \A i \in 1..Len(lockEntries) :
       LET entry == skillsToInstall[i].entry
           skill == skillsToInstall[i].skill
       IN /\ entry.version # NoVersion => lockEntries[i].version = entry.version
          /\ (entry.version = NoVersion /\ skill.version # NoVersion) =>
               lockEntries[i].version = skill.version
          /\ (entry.version = NoVersion /\ skill.version = NoVersion) =>
               lockEntries[i].version = LATEST

C9_Witness ==
  \E i \in 1..Len(lockEntries) :
    /\ skillsToInstall[i].entry.version = V2
    /\ skillsToInstall[i].skill.version = V1
    /\ lockEntries[i].version = V2

C10_Step ==
  (pc = "match" /\ ~NoMatch(CurrentEntry) /\ CurrentEntry.version # NoVersion) =>
    LET entry == CurrentEntry
        skill == MatchedSkill(entry)
    IN /\ pc' # "exited"
       /\ skillsToInstall' = Append(skillsToInstall,
            [skill |-> skill, entry |-> entry, resolvedRef |-> cur.resolvedRef])
       /\ Len(lockEntries') = Len(lockEntries) + 1
       /\ lockEntries'[Len(lockEntries')].name = entry.name
       /\ lockEntries'[Len(lockEntries')].source = entry.source
       /\ skill.version = entry.version => warnings' = warnings
       /\ skill.version = NoVersion =>
            /\ Len(warnings') = Len(warnings) + 1
            /\ warnings'[Len(warnings')].kind = "unversioned"
       /\ (skill.version # NoVersion /\ skill.version # entry.version) =>
            /\ Len(warnings') = Len(warnings) + 1
            /\ warnings'[Len(warnings')].kind = "mismatch"

\* C10: for a matched entry that declares a version, a package without a
\* declared version adds a warning, an equal version adds no message and a
\* different version adds a warning; in all three cases the entry joins the
\* install list and a lock entry is added for it.
C10_VersionValidationNeverBlocks ==
  [][C10_Step]_vars

C10_Witness ==
  /\ Len(warnings) = 1
  /\ warnings[1].kind = "mismatch"
  /\ Len(lockEntries) = 1
  /\ Len(skillsToInstall) = 1
  /\ pc = "agents"

\* the entries of the groups, group after group, each with the resolvedRef
\* that the retrieval of its group returned
RECURSIVE EntriesWithRef(_)
EntriesWithRef(g) ==
  IF g = 0 THEN <<>>
  ELSE EntriesWithRef(g - 1) \o
       [j \in 1..Len(skillsBySource[g].entries) |->
          [source |-> skillsBySource[g].entries[j].source,
           name |-> skillsBySource[g].entries[j].name,
           resolvedRef |-> cloneCalls[g].resolvedRef]]

C11_Complete ==
  pc = "agents" =>
    /\ Len(lockEntries) = Len(manifest)
    /\ \A i \in 1..Len(manifest) :
         Cardinality({k \in 1..Len(manifest) :
                        manifest[k].source = manifest[i].source /\ manifest[k].name = manifest[i].name})
         = Cardinality({k \in 1..Len(lockEntries) :
                        lockEntries[k].source = manifest[i].source /\ lockEntries[k].name = manifest[i].name})
    /\ [k \in 1..Len(lockEntries) |->
          [source |-> lockEntries[k].source, name |-> lockEntries[k].name,
           resolvedRef |-> lockEntries[k].resolvedRef]]
       = EntriesWithRef(Len(skillsBySource))

C11_AppendOnly ==
  /\ Len(lockEntries') >= Len(lockEntries)
  /\ \A k \in 1..Len(lockEntries) : lockEntries'[k] = lockEntries[k]

\* C11: when every group is reconciled the lock entries are, one for each
\* manifest entry, the entry's source and name with the resolvedRef that the
\* retrieval of the entry's group returned; and no step removes or changes a
\* lock entry already in the list.
C11_OneLockEntryPerManifestEntry ==
  [][C11_AppendOnly]_vars /\ []C11_Complete

C11_Witness ==
  /\ pc = "agents"
  /\ Len(skillsBySource) = 2
  /\ Len(lockEntries) = 2
  /\ lockEntries[1].resolvedRef # lockEntries[2].resolvedRef
  /\ IsCommitId(lockEntries[2].resolvedRef)

\* C12: a call with a version tries the tag v<version>, then the tag
\* <version>, then the default branch; it goes on to the next only when the
\* one before failed and stops at the first that succeeds; it fails exactly
\* when the default branch, tried last, fails too.
C12_TagVariantsThenDefaultBranch ==
  \A i \in 1..Len(cloneCalls) :
    LET c == cloneCalls[i]
        order == << <<"v">> \o c.version, c.version, HEAD >>
        n == Len(c.attempts)
    IN c.version # NoVersion =>
         /\ n \in 1..3
         /\ c.attempts = SubSeq(order, 1, n)
         /\ \A k \in 1..(n - 1) : ~c.answers[k]
         /\ n < 3 => c.answers[n]
         /\ (c.resolvedRef = <<>>) <=> (n = 3 /\ ~c.answers[3])
         /\ (c.resolvedRef = <<>>) =>
              (i = Len(cloneCalls) /\ pc = "exited" /\ fatal.kind = "CloneError")

C12_Witness ==
  \E i \in 1..Len(cloneCalls) :
    /\ cloneCalls[i].version = V2
    /\ cloneCalls[i].attempts = << <<"v">> \o V2, V2 >>
    /\ cloneCalls[i].answers = <<FALSE, TRUE>>
    /\ pc = "discover"

C13_Step ==
  (/\ pc = "match"
   /\ ~NoMatch(CurrentEntry)
   /\ CurrentEntry.version # NoVersion
   /\ cloneCalls[gi].version # NoVersion
   /\ cloneCalls[gi].attempts[Len(cloneCalls[gi].attempts)] = HEAD) =>
    /\ Len(warnings') = Len(warnings) + 1
    /\ warnings'[Len(warnings')].name = MatchedSkill(CurrentEntry).name

\* C13: when the retrieval of a group with a requested version ended on the
\* default branch, every entry of the group that is matched adds a message
\* for the user about its package.
C13_FallbackIsSurfaced ==
  [][C13_Step]_vars

\* C14: the lock file is written at most once, and only when every manifest
\* entry was matched and every install of every (package, agent) pair
\* succeeded.
C14_LockFileOnlyAfterSuccess ==
  /\ lockWrites <= 1
  /\ lockWrites > 0 =>
       /\ Len(skillsToInstall) = Len(manifest)
       /\ Len(results) = Len(skillsToInstall) * Len(targetAgents)
       /\ \A k \in 1..Len(results) : results[k].success

Malformed(e) ==
  \/ e.source = <<>>
  \/ e.name = <<>>
  \/ ~validateManifestEntry(e)

FirstMalformed(raw) ==
  IF \E i \in 1..Len(raw) : Malformed(raw[i])
  THEN CHOOSE i \in 1..Len(raw) : Malformed(raw[i]) /\ \A j \in 1..(i - 1) : ~Malformed(raw[j])
  ELSE 0

\* C16: a manifest with no entries or with a malformed entry ends the run at
\* the parse with a ManifestParseError and no entry list; for a malformed
\* entry the message holds that entry's index.
C16_MalformedManifestRejected ==
  /\ (pc # "start" /\ manifest # <<>>) =>
       \A i \in 1..Len(manifest) : ~Malformed(manifest[i])
  /\ (pc = "exited" /\ fatal.kind = "ManifestParseError") =>
       /\ manifest = <<>>
       /\ fatal.error.name = "ManifestParseError"
       /\ (fatal.input # Unreadable /\ FirstMalformed(fatal.input) # 0) =>
            fatal.error.index = <<FirstMalformed(fatal.input) - 1>>

(***************************************************************************)
(* Properties of the discovery (SpecDiscover).                             *)
(***************************************************************************)
\* the directories one call looks at for a SKILL.md, in the order it looks:
\* the search root alone, else the children of the priority locations, else
\* the directories of the walk
ValidAt(tree, dir) == parseSkillMd(tree, TmpPath(1), dir) # NoSkill

ScanOrder(tree, searchPath) ==
  LET priority == priorityCandidates(tree, prioritySearchDirs(searchPath))
  IN IF ValidAt(tree, searchPath) THEN <<searchPath>>
     ELSE IF \E k \in 1..Len(priority) : ValidAt(tree, priority[k]) THEN priority
     ELSE findSkillDirs(tree, searchPath, 0)

\* C17: the list one call returns holds no name twice, and each package in
\* it is the first, in scan order, of the descriptors with its name.
C17_FirstOfEachNameOnly ==
  scan.done =>
    LET order == ScanOrder(scan.tree, scan.searchPath)
    IN /\ \A i, j \in 1..Len(scan.skills) :
            i # j => scan.skills[i].name # scan.skills[j].name
       /\ \A k \in 1..Len(order) :
            ValidAt(scan.tree, order[k]) =>
              \E i \in 1..Len(scan.skills) :
                /\ scan.skills[i].name = parseSkillMd(scan.tree, TmpPath(1), order[k]).name
                /\ \E f \in 1..k :
                     /\ scan.skills[i] = parseSkillMd(scan.tree, TmpPath(1), order[f])
                     /\ \A e \in 1..(f - 1) :
                          parseSkillMd(scan.tree, TmpPath(1), order[e]).name # scan.skills[i].name
       /\ \A i \in 1..Len(scan.skills) :
            \E k \in 1..Len(order) :
              scan.skills[i] = parseSkillMd(scan.tree, TmpPath(1), order[k])

C17_Witness ==
  /\ scan.done
  /\ Len(scan.skills) = 1
  /\ scan.skills[1].name = <<"a">>
  /\ scan.skills[1].version = V1
  /\ scan.skills[1].path = TmpPath(1) \o <<SEP, "skills", SEP, "z">>
  /\ \E i \in 1..Len(scan.tree) :
       /\ scan.tree[i].dir = <<"skills", "y">>
       /\ scan.tree[i].desc = [name |-> <<"a">>, version |-> NoVersion]

(***************************************************************************)
(* Properties of parseSource (SpecSource).                                 *)
(***************************************************************************)
\* the input is owner/name or owner/name/tail, without ":", owner and name
\* not empty
IsShorthand(input) ==
  LET segs == Split(input)
  IN /\ COLON \notin Range(input)
     /\ Len(segs) >= 2
     /\ segs[1] # <<>>
     /\ segs[2] # <<>>
     /\ Len(segs) > 2 => JoinSegs(SubSeq(segs, 3, Len(segs))) # <<>>

ShorthandResult(input) ==
  LET segs == Split(input)
  IN [type |-> "github",
      url |-> <<"https://", GITHUB, SEP>> \o segs[1] \o <<SEP>> \o segs[2] \o <<DOTGIT>>,
      subpath |-> IF Len(segs) > 2 THEN JoinSegs(SubSeq(segs, 3, Len(segs))) ELSE NoSubpath]

\* the input holds github.com/ or gitlab.com/ followed by two segments
NamesHost(input) ==
  \E i \in 1..Len(input) :
    /\ input[i] \in {GITHUB, GITLAB}
    /\ i + 4 <= Len(input)
    /\ input[i + 1] = SEP
    /\ input[i + 2] # SEP
    /\ \E p \in (i + 3)..(Len(input) - 1) :
         /\ input[p] = SEP
         /\ input[p + 1] # SEP
         /\ \A k \in (i + 2)..(p - 1) : input[k] # SEP

\* C18 as stated: every input of the shorthand form yields the GitHub URL of
\* owner and name, with the tail as subpath.
C18_ShorthandAlwaysGithub ==
  (srcCall.done /\ IsShorthand(srcCall.input)) =>
    srcCall.parsed = ShorthandResult(srcCall.input)

\* C18 amended: so it is for an input of the shorthand form that holds
\* neither host name followed by two segments and whose tail holds no line
\* break.
C18_ShorthandUnlessHostNamed ==
  (/\ srcCall.done
   /\ IsShorthand(srcCall.input)
   /\ ~NamesHost(srcCall.input)
   /\ NL \notin Range(ShorthandResult(srcCall.input).subpath)) =>
    srcCall.parsed = ShorthandResult(srcCall.input)

C18_Witness ==
  /\ srcCall.done
  /\ srcCall.input = <<"o", SEP, "r", DOTGIT, SEP, "tree", SEP, "-">>
  /\ srcCall.parsed.url = <<"https://", GITHUB, SEP, "o", SEP, "r", DOTGIT, DOTGIT>>
  /\ srcCall.parsed.subpath = <<"tree", SEP, "-">>

(***************************************************************************)
(* Properties of the install pass (Spec).                                  *)
(***************************************************************************)
\* C19: the results are, in order, those of the (package, agent) pairs taken
\* package by package and, for each package, agent by agent; a pair that
\* failed has success FALSE and an error and the pairs after it are still
\* attempted: once the pass has begun the run goes on to the lock step with
\* one result for every pair.
C19_EveryPairAttemptedOnce ==
  LET pairs == Len(skillsToInstall) * Len(targetAgents)
  IN /\ Len(results) <= pairs
     /\ \A k \in 1..Len(results) :
          /\ results[k].skill = skillsToInstall[((k - 1) \div Len(targetAgents)) + 1].skill.name
          /\ results[k].agent = targetAgents[((k - 1) % Len(targetAgents)) + 1]
          /\ results[k].success <=> results[k].error = NoError
     /\ pc = "install" => Len(results) < pairs
     /\ (pc = "lock" \/ (pc = "exited" /\ results # <<>>)) => Len(results) = pairs

C19_Witness ==
  /\ pc = "lock"
  /\ Len(results) = 4
  /\ ~results[1].success
  /\ results[2].success
  /\ ~results[3].success
  /\ results[1].skill # results[3].skill
  /\ results[1].agent # results[2].agent

(***************************************************************************)
(* Properties of repeated installs (SpecReinstall).                        *)
(***************************************************************************)
\* C20: an install that follows a successful install of the same package
\* for the same agent succeeds too and leaves the disk as it found it.
\* Every file the install copies holds the package's content after an
\* install that succeeded, whatever was at its place before.
C20_ReinstallChangesNothing ==
  \A ops \in {installSkillForAgent([name |-> instReq.name, path |-> instReq.path],
                                     instReq.agent, instReq.global, 0).ops} :
     \A k \in 1..Len(disk.installs) :
       /\ disk.installs[k].success =>
            \A i \in 1..Len(ops) :
              ops[i].op = "cp" => OnDisk(ops[i].path, FALSE, PackageBytes) \in disk.installs[k].fs
       /\ (k > 1 /\ disk.installs[k - 1].success) =>
            /\ disk.installs[k].success
            /\ disk.installs[k].fs = disk.installs[k - 1].fs

C20_Witness ==
  /\ Len(disk.installs) = 2
  /\ disk.installs[1].success
  /\ disk.installs[2].success
  /\ \E e \in disk.fs : e.content = "old"
  /\ \E e \in disk.fs : e.content = PackageBytes /\ e.path[Len(e.path)] = "SKILL.md"

(***************************************************************************)
(* Properties of cleanup (SpecCleanup).                                    *)
(***************************************************************************)
\* the directory named by dir is a proper descendant of the temp root
UnderTmp(dir) ==
  Len(Segments(dir)) > Len(Segments(TmpDir)) /\ Within(TmpDir, dir)

\* C21: cleanup deletes only for a directory that is a descendant of the
\* temp root; for every other path cleanupTempDir raises and the disk is
\* as before; the caller never sees the error.
C21_DeletesOnlyBelowTmp ==
  tmpCall.done =>
    /\ ~tmpCall.propagated
    /\ (tmpCall.dir # <<>> /\ ~UnderTmp(tmpCall.dir)) =>
         tmpCall.raised /\ tmpCall.after = tmpCall.fs
    /\ tmpCall.after # tmpCall.fs => UnderTmp(tmpCall.dir)

(***************************************************************************)
(* Properties of discoverSkills: the three phases (SpecDiscover).          *)
(***************************************************************************)
\* C22: when the directory searched holds a descriptor that parses, the
\* call returns that one package, lists no priority location and does not
\* walk the tree.
C22_DirectHitReturnsAlone ==
  (scan.done /\ ValidAt(scan.tree, scan.searchPath)) =>
    /\ scan.skills = <<parseSkillMd(scan.tree, TmpPath(1), scan.searchPath)>>
    /\ scan.listed = <<>>
    /\ ~scan.walked
    /\ scan.visits = <<>>

C22_Witness ==
  /\ scan.done
  /\ scan.searchPath = <<>>
  /\ ValidAt(scan.tree, <<>>)
  /\ ValidAt(scan.tree, <<"skills", "y">>)
  /\ ValidAt(scan.tree, <<"docs", "deep", "w">>)
  /\ Len(scan.skills) = 1
  /\ scan.skills[1].path = TmpPath(1)

\* the directory of the tree a returned skill was read from
DirOf(tree, skill) ==
  CHOOSE d \in {tree[i].dir : i \in 1..Len(tree)} : TmpPath(1) \o DirPath(d) = skill.path

\* the place in the priority list of the location dir is an immediate
\* child of, 0 when it is the child of none
LocationOf(dir, searchPath) ==
  LET locs == prioritySearchDirs(searchPath)
      at == {k \in 1..Len(locs) : dir # <<>> /\ SubSeq(dir, 1, Len(dir) - 1) = locs[k]}
  IN IF at = {} THEN 0 ELSE CHOOSE k \in at : TRUE

\* the directories of the tree with a descriptor that parses, immediately
\* below a priority location
PriorityPackages(tree, searchPath) ==
  {d \in {tree[i].dir : i \in 1..Len(tree)} :
     ValidAt(tree, d) /\ LocationOf(d, searchPath) # 0}

\* C23: unless the directory searched is itself a package, the walk runs
\* exactly when no priority location has a package as an immediate child;
\* otherwise every package returned is such a child, and the packages come
\* in the order of the priority list.
C23_WalkOnlyWhenPriorityEmpty ==
  (scan.done /\ ~ValidAt(scan.tree, scan.searchPath)) =>
    /\ scan.walked <=> PriorityPackages(scan.tree, scan.searchPath) = {}
    /\ scan.listed = prioritySearchDirs(scan.searchPath)
    /\ ~scan.walked =>
         /\ scan.skills # <<>>
         /\ \A i \in 1..Len(scan.skills) :
              DirOf(scan.tree, scan.skills[i]) \in PriorityPackages(scan.tree, scan.searchPath)
         /\ \A i, j \in 1..Len(scan.skills) :
              i < j => LocationOf(DirOf(scan.tree, scan.skills[i]), scan.searchPath)
                         <= LocationOf(DirOf(scan.tree, scan.skills[j]), scan.searchPath)

C23_Witness ==
  /\ scan.done
  /\ scan.searchPath = <<>>
  /\ ~scan.walked
  /\ Len(scan.skills) = 2
  /\ scan.skills[1].path = TmpPath(1) \o <<SEP, "x">>
  /\ scan.skills[2].path = TmpPath(1) \o <<SEP, "skills", SEP, "y">>
  /\ ValidAt(scan.tree, <<"docs", "deep", "w">>)
  /\ scan.tree[2].dir # <<"x">>

\* how far dir is below the directory searched, and whether the walk
\* reaches it: no name on the way down from the directory searched (dir's
\* own included) is one the walk skips
DepthBelow(dir, searchPath) == Len(dir) - Len(searchPath)
Reachable(dir, searchPath) ==
  /\ IsPrefix(searchPath, dir)
  /\ DepthBelow(dir, searchPath) <= 5
  /\ \A k \in (Len(searchPath) + 1)..Len(dir) :
       dir[k] \notin {"node_modules", ".git", "dist", "build", "__pycache__"}

\* C24: when the walk runs it goes through directories at most 5 levels
\* below the directory searched and outside skipped directories; every
\* valid package there has its name in the result, and every package in the
\* result is one of them.
C24_WalkBoundedAndSkipping ==
  (scan.done /\ scan.walked) =>
    /\ \A k \in 1..Len(scan.visits) : Reachable(scan.visits[k], scan.searchPath)
    /\ \A i \in 1..Len(scan.tree) :
         (ValidAt(scan.tree, scan.tree[i].dir) /\ Reachable(scan.tree[i].dir, scan.searchPath)) =>
           \E k \in 1..Len(scan.skills) : scan.skills[k].name = scan.tree[i].desc.name
    /\ \A k \in 1..Len(scan.skills) :
         Reachable(DirOf(scan.tree, scan.skills[k]), scan.searchPath)

C24_Witness ==
  /\ scan.done
  /\ scan.walked
  /\ ValidAt(scan.tree, <<"p1", "p2", "p3", "p4", "p5">>)
  /\ ValidAt(scan.tree, <<"p1", "p2", "p3", "p4", "p5", "p6">>)
  /\ ValidAt(scan.tree, <<"node_modules", "m">>)
  /\ Len(scan.skills) = 1
  /\ scan.skills[1].path = TmpPath(1) \o DirPath(<<"p1", "p2", "p3", "p4", "p5">>)
  /\ \E i \in 1..Len(scan.tree) :
       /\ scan.tree[i].dir = <<"p1", "p2", "p3", "p4", "p5", "p6">>
       /\ scan.tree[i].desc.name # scan.skills[1].name

(***************************************************************************)
(* Properties of what an install copies (SpecReinstall).                   *)
(***************************************************************************)
\* an entry name the copy leaves out
LeftOut(name) ==
  name = <<"README.md">> \/ name = <<"metadata.json">> \/ (name # <<>> /\ name[1] = "_")

\* what a complete copy of entries at dest consists of
RECURSIVE ExpectedCopy(_, _)
ExpectedCopy(entries, dest) ==
  UNION { IF LeftOut(entries[i].name) THEN {}
          ELSE IF entries[i].isDir
          THEN {OnDisk(join(dest, entries[i].name), TRUE, "")}
                 \cup ExpectedCopy(entries[i].entries, join(dest, entries[i].name))
          ELSE {OnDisk(join(dest, entries[i].name), FALSE, PackageBytes)}
        : i \in 1..Len(entries) }

\* every path of entries at dest
RECURSIVE AllPaths(_, _)
AllPaths(entries, dest) ==
  UNION { {join(dest, entries[i].name)} \cup AllPaths(entries[i].entries, join(dest, entries[i].name))
        : i \in 1..Len(entries) }

\* the paths at dest of the entries left out, with all that is below them
RECURSIVE LeftOutPaths(_, _)
LeftOutPaths(entries, dest) ==
  UNION { IF LeftOut(entries[i].name)
          THEN {join(dest, entries[i].name)}
                 \cup AllPaths(entries[i].entries, join(dest, entries[i].name))
          ELSE LeftOutPaths(entries[i].entries, join(dest, entries[i].name))
        : i \in 1..Len(entries) }

\* C25: after an install that succeeded the target directory holds every
\* entry of the package that is not left out, files with the package's
\* content; no install, successful or not, writes an entry that is left
\* out or lies below one.
C25_CopiesAllButExcluded ==
  \A k \in 1..Len(disk.installs) :
    \A inst \in {disk.installs[k]} :
      /\ inst.success =>
           /\ OnDisk(inst.path, TRUE, "") \in inst.fs
           /\ ExpectedCopy(PackageContent, inst.path) \subseteq inst.fs
      /\ \A i \in 1..Len(inst.ops) :
           inst.ops[i].path \notin LeftOutPaths(PackageContent, inst.path)
      /\ \A e \in inst.fs \ inst.before :
           e.path \notin LeftOutPaths(PackageContent, inst.path)

C25_Witness ==
  /\ Len(disk.installs) = 1
  /\ disk.installs[1].success
  /\ \A e \in disk.installs[1].before : ~Below(disk.installs[1].path, e.path)
  /\ OnDisk(join(join(disk.installs[1].path, <<"ref">>), <<"a.md">>), FALSE, PackageBytes)
       \in disk.fs
  /\ \A e \in disk.fs : e.path # join(join(disk.installs[1].path, <<"_", "d">>), <<"k.md">>)

(***************************************************************************)
(* Properties of what an install leaves alone (SpecReinstall).             *)
(***************************************************************************)
\* p is the directory dir or lies below it
AtOrBelow(dir, p) == p = dir \/ Below(dir, p)

\* inside the target directory an install adds or replaces only entries of
\* a complete copy, and everything else that was there stays as it was
InsideOnlyCounterparts(inst) ==
  /\ \A e \in inst.fs \ inst.before :
       AtOrBelow(inst.path, e.path) =>
         e \in ExpectedCopy(PackageContent, inst.path) \cup {OnDisk(inst.path, TRUE, "")}
  /\ \A e \in inst.before \ inst.fs :
       /\ ~e.isDir
       /\ OnDisk(e.path, FALSE, PackageBytes) \in inst.fs \cap ExpectedCopy(PackageContent, inst.path)

\* C28 as stated: an install, complete or not, leaves everything outside
\* its target directory as it was, and inside it touches only counterparts
\* of the package's entries.
C28_NothingOutsideTarget ==
  \A k \in 1..Len(disk.installs) :
    \A inst \in {disk.installs[k]} :
      /\ {e \in inst.fs : ~AtOrBelow(inst.path, e.path)}
           = {e \in inst.before : ~AtOrBelow(inst.path, e.path)}
      /\ InsideOnlyCounterparts(inst)

\* C28, amended: outside its target directory an install removes and
\* rewrites nothing and adds only the missing directories above the target
\* directory; inside it touches only counterparts of the package's entries.
C28_OutsideOnlyMissingParents ==
  \A k \in 1..Len(disk.installs) :
    \A inst \in {disk.installs[k]} :
      /\ \A e \in inst.before : ~AtOrBelow(inst.path, e.path) => e \in inst.fs
      /\ \A e \in inst.fs \ inst.before :
           ~AtOrBelow(inst.path, e.path) =>
             e.isDir /\ Below(e.path, inst.path) /\ \A b \in inst.before : b.path # e.path
      /\ InsideOnlyCounterparts(inst)

C28_Witness ==
  /\ Len(disk.installs) = 1
  /\ ~disk.installs[1].success
  /\ Len(disk.installs[1].ops) >= 3
  /\ OnDisk(join(disk.installs[1].path, <<"notes.txt">>), FALSE, "old") \in disk.fs
  /\ OnDisk(join(disk.installs[1].path, <<"SKILL.md">>), FALSE, PackageBytes) \in disk.fs
  /\ OnDisk(join(instReq.path, <<"SKILL.md">>), FALSE, "source") \in disk.fs
  /\ \E e \in disk.fs : e.content = "old" /\ ~AtOrBelow(disk.installs[1].path, e.path)

(***************************************************************************)
(* Properties of the order of reconciliation and installs (Spec).          *)
(***************************************************************************)
\* C26: when an install has written, every group was retrieved and every
\* manifest entry matched before; a run ended by a retrieval error or a
\* missing package has written nothing.
C26_NoWriteBeforeReconciled ==
  /\ fsWrites # {} =>
       /\ gi = Len(skillsBySource) + 1
       /\ Len(cloneCalls) = Len(skillsBySource)
       /\ discoverCalls = Len(skillsBySource)
       /\ Len(lockEntries) = Len(manifest)
       /\ Len(skillsToInstall) = Len(manifest)
       /\ fatal.kind \notin {"CloneError", "SkillNotFoundError"}
  /\ results # <<>> => gi = Len(skillsBySource) + 1
  /\ fatal.kind \in {"CloneError", "SkillNotFoundError"} => fsWrites = {} /\ results = <<>>

C26_Witness ==
  /\ fsWrites # {}
  /\ Len(skillsBySource) = 2
  /\ Len(results) = 1
  /\ pc = "install"

(***************************************************************************)
(* Properties of the directories of two packages (SpecPair).               *)
(***************************************************************************)
\* C27: two packages with distinct names, installed for the same agent and
\* scope, are installed to distinct directories.
C27_DistinctNamesDistinctDirs ==
  (pairCall.done /\ pairCall.a # pairCall.b) => pairCall.dirA # pairCall.dirB

(***************************************************************************)
(* Properties of the location functions (SpecLocation).                    *)
(***************************************************************************)
\* the skills directory of a location, written out
SkillsDirOf(agent, location) ==
  Render(Segments(Cwd \o (IF location = PROJECT THEN <<>> ELSE <<SEP>> \o location)
                      \o <<SEP>> \o skillsDir(agent)))

\* C29: for a location validateLocation accepts, 'global' apart, and any
\* name, resolveLocationPath returns, and the path is below the working
\* directory and immediately below the location's skills directory.
C29_AcceptedLocationResolvesInside ==
  (locCall.done /\ locCall.accepted /\ locCall.location # GLOBAL) =>
    /\ ~locCall.resolved.threw
    /\ Within(Cwd, locCall.resolved.path)
    /\ Below(Cwd, locCall.resolved.path)
    /\ ChildOf(SkillsDirOf(locCall.agent, locCall.location), locCall.resolved.path)

C29_Witness ==
  /\ locCall.done
  /\ locCall.accepted
  /\ locCall.location = <<DOT, SEP, "a">>
  /\ locCall.name = <<DOT, DOT>>
  /\ ~locCall.resolved.threw

\* C30: sanitizeName applied twice gives what it gives applied once, for
\* every name, names longer than the cap included; so the directory
\* installSkillToLocation writes to (the name sanitized twice) is the one
\* getInstallPathForLocation reports for the raw name (sanitized once).
C30_SanitizeTwiceSameDirectory ==
  locCall.done =>
    /\ sanitizeName(sanitizeName(locCall.name)) = sanitizeName(locCall.name)
    /\ (locCall.installed.success /\ ~locCall.reported.threw /\ locCall.name # <<>>) =>
         locCall.installed.path = locCall.reported.path

====
